---- MODULE Spec2Model ----
(***************************************************************************)
(* Model of the moleculer-mcp bridge: the name sanitizer, the service      *)
(* catalogue build (allow filter, custom tools pass, remaining actions     *)
(* pass) and the per-tool dispatch handlers.                               *)
(*                                                                         *)
(* Strings are sequences of one-character strings, so that the regular     *)
(* expressions of NameSanitizer are computed character by character.       *)
(***************************************************************************)
EXTENDS Integers, Sequences, FiniteSets, TLC

VARIABLES
    actions,      \* broker.listActions(): sequence of ActionInfo records
    allow,        \* options.allow: sequence of patterns
    tools,        \* options.tools: sequence of custom tool records
    phase,        \* position of the constructor: "custom", "remaining", "done", "failed"
    idx,          \* index of the loop iteration the constructor is about to run
    nameMap,      \* ServiceCatalogue.nameMap: tool name -> original action name
    toolConfigs,  \* ServiceCatalogue.toolConfigs: tool name -> ToolConfig
    usedNames,    \* ServiceCatalogue.usedNames
    created,      \* history: the createToolConfig calls, in order
    error,        \* the error the constructor threw, or NoError
    catalogue,    \* the reference the caller of `new ServiceCatalogue` holds
    snapshot,     \* the mapping the last getTools() call returned
    invocations,  \* handler invocations: sequence of records
    brokerCalls,  \* history: the broker.call(name, params) calls, in order
    nsArgs,       \* NameSanitizer harness: the arguments of the call
    nsOut,        \* NameSanitizer harness: the value the call produced
    sfArgs,       \* SchemaFactory harness: the params handed to build
    sfOut,        \* SchemaFactory harness: the value the call produced
    callerWrites, \* history: what the holder of a getTools() result wrote to it
    isStarted,    \* BridgeBroker.isStarted
    inFlight,     \* the calls of the asynchronous methods, each with its stage
    events,       \* history: what the calls did, in order
    gateway       \* McpGateway: isStarted, serviceCatalogue, server, its routes

vars == <<actions, allow, tools, phase, idx, nameMap, toolConfigs, usedNames,
          created, error, catalogue, snapshot, invocations, brokerCalls,
          nsArgs, nsOut, sfArgs, sfOut, callerWrites,
          isStarted, inFlight, events, gateway>>

catalogueVars == <<actions, allow, tools, phase, idx, nameMap, toolConfigs,
                   usedNames, created, error, catalogue, snapshot>>
dispatchVars == <<invocations, brokerCalls>>
nsVars == <<nsArgs, nsOut>>
sfVars == <<sfArgs, sfOut>>
callerVars == <<callerWrites>>
brokerVars == <<isStarted, inFlight, events, gateway>>

-----------------------------------------------------------------------------
(* Characters *)

LowerSeq == <<"a","b","c","d","e","f","g","h","i","j","k","l","m",
              "n","o","p","q","r","s","t","u","v","w","x","y","z">>
UpperSeq == <<"A","B","C","D","E","F","G","H","I","J","K","L","M",
              "N","O","P","Q","R","S","T","U","V","W","X","Y","Z">>
DigitSeq == <<"0","1","2","3","4","5","6","7","8","9">>

Lower == {LowerSeq[i] : i \in DOMAIN LowerSeq}
Upper == {UpperSeq[i] : i \in DOMAIN UpperSeq}
Digit == {DigitSeq[i] : i \in DOMAIN DigitSeq}

\* the character class [A-Za-z0-9_]
LegalChars == Lower \cup Upper \cup Digit \cup {"_"}

toLowerCase(s) ==
    [i \in 1..Len(s) |->
        IF s[i] \in Upper
        THEN LowerSeq[CHOOSE k \in DOMAIN UpperSeq : UpperSeq[k] = s[i]]
        ELSE s[i]]

\* String(n) for a non-negative integer, as used by the template `${counter}`
RECURSIVE Decimal(_)
Decimal(n) ==
    IF n < 10 THEN <<DigitSeq[n + 1]>>
    ELSE Decimal(n \div 10) \o <<DigitSeq[(n % 10) + 1]>>

-----------------------------------------------------------------------------
(* NameSanitizer *)

MaxNameLength == 64
MaxAttempts == 1000

\* /^[A-Za-z0-9_]{1,64}$/
VALID_NAME_PATTERN(s) ==
    /\ Len(s) >= 1
    /\ Len(s) <= MaxNameLength
    /\ \A i \in 1..Len(s) : s[i] \in LegalChars

\* .replace(/([a-z])([A-Z])/g, '$1_$2')
\* the characters lo .. hi of s, each lower-case letter that an upper-case
\* letter follows with an underscore behind it; the range is done by halves
RECURSIVE InsertCamelBoundaryIn(_, _, _)
InsertCamelBoundaryIn(s, lo, hi) ==
    IF lo > hi THEN <<>>
    ELSE IF lo = hi
    THEN IF lo < Len(s) /\ s[lo] \in Lower /\ s[lo + 1] \in Upper
         THEN <<s[lo], "_">>
         ELSE <<s[lo]>>
    ELSE LET mid == (lo + hi) \div 2
         IN  InsertCamelBoundaryIn(s, lo, mid)
                \o InsertCamelBoundaryIn(s, mid + 1, hi)

InsertCamelBoundary(s, i) == InsertCamelBoundaryIn(s, i, Len(s))

\* the replacement with the class [a-z0-9_]: upper-case letters go too
ReplaceForbidden_upperCaseToo(s) ==
    [i \in 1..Len(s) |-> IF s[i] \in LegalChars \ Upper THEN s[i] ELSE "_"]

\* .replace(/[^A-Za-z0-9_]/g, '_')
ReplaceForbidden(s) ==
    [i \in 1..Len(s) |-> IF s[i] \in LegalChars THEN s[i] ELSE "_"]

\* .replace(/_+/g, '_')
\* the characters lo .. hi of s without the underscores that follow an
\* underscore; the range is done by halves
RECURSIVE CollapseIn(_, _, _)
CollapseIn(s, lo, hi) ==
    IF lo > hi THEN <<>>
    ELSE IF lo = hi
    THEN IF s[lo] = "_" /\ lo > 1 /\ s[lo - 1] = "_" THEN <<>> ELSE <<s[lo]>>
    ELSE LET mid == (lo + hi) \div 2
         IN  CollapseIn(s, lo, mid) \o CollapseIn(s, mid + 1, hi)

CollapseFrom(s, i) == CollapseIn(s, i, Len(s))

CollapseUnderscores(s) == CollapseFrom(s, 1)

\* .replace(/^_|_$/g, ''): at most one underscore at each end
TrimOneUnderscore(s) ==
    LET t == IF Len(s) > 0 /\ s[1] = "_" THEN SubSeq(s, 2, Len(s)) ELSE s
    IN  IF Len(t) > 0 /\ t[Len(t)] = "_" THEN SubSeq(t, 1, Len(t) - 1) ELSE t

\* .replace(/^_+|_+$/g, ''): the whole run of underscores at each end
TrimUnderscoreRuns(s) ==
    LET keep == {i \in 1..Len(s) : s[i] # "_"}
    IN  IF keep = {} THEN <<>>
        ELSE LET first == CHOOSE i \in keep : \A j \in keep : i <= j
                 last  == CHOOSE i \in keep : \A j \in keep : i >= j
             IN  SubSeq(s, first, last)

toSnake(input) ==
    TrimOneUnderscore(
        CollapseUnderscores(
            toLowerCase(
                ReplaceForbidden(
                    InsertCamelBoundary(input, 1)))))

\* stripForbidden without its substring(0, 64)
stripForbidden_noTruncation(input) ==
    LET cleaned == TrimUnderscoreRuns(CollapseUnderscores(ReplaceForbidden(input)))
    IN  IF cleaned = <<>> THEN <<"a","c","t","i","o","n">> ELSE cleaned

\* stripForbidden that trims with /^_|_$/g, one underscore at each end, and
\* trims before it collapses
stripForbidden_trimOne(input) ==
    LET cleaned  == CollapseUnderscores(TrimOneUnderscore(ReplaceForbidden(input)))
        nonEmpty == IF cleaned = <<>> THEN <<"a","c","t","i","o","n">> ELSE cleaned
    IN  IF Len(nonEmpty) > MaxNameLength
        THEN SubSeq(nonEmpty, 1, MaxNameLength)
        ELSE nonEmpty

stripForbidden(input) ==
    LET cleaned  == TrimUnderscoreRuns(CollapseUnderscores(ReplaceForbidden(input)))
        nonEmpty == IF cleaned = <<>> THEN <<"a","c","t","i","o","n">> ELSE cleaned
    IN  IF Len(nonEmpty) > MaxNameLength
        THEN SubSeq(nonEmpty, 1, MaxNameLength)
        ELSE nonEmpty

\* The value of a call that may throw: [ok |-> TRUE, name |-> s] when it
\* returns s, [ok |-> FALSE, base |-> b] when it throws an Error about b.
Returned(s) == [ok |-> TRUE, name |-> s]
Thrown(b) == [ok |-> FALSE, base |-> b]

\* sanitizeActionName without its toSnake step
sanitizeActionName_stripOnly(actionName) ==
    LET sanitized == stripForbidden(actionName)
    IN  IF ~VALID_NAME_PATTERN(sanitized) THEN Thrown(actionName)
        ELSE Returned(sanitized)

sanitizeActionName(actionName) ==
    LET sanitized == stripForbidden(toSnake(actionName))
    IN  IF ~VALID_NAME_PATTERN(sanitized) THEN Thrown(actionName)
        ELSE Returned(sanitized)

\* The candidateName the while loop tests in its k-th test: baseName itself
\* first (counter = 1), then `${baseName}_${counter++}` for counter = 1, 2, ...
Candidate(baseName, k) ==
    IF k = 0 THEN baseName ELSE baseName \o <<"_">> \o Decimal(k)

\* ensureUnique that appends _1 without looking whether _1 is taken
ensureUniqueLoop_onlyFirstSuffix(baseName, used) ==
    IF baseName \notin used THEN Returned(baseName)
    ELSE Returned(Candidate(baseName, 1))

\* ensureUnique that throws when counter >= 1000: one test too early
ensureUniqueLoop_limitOffByOne(baseName, used) ==
    LET tested  == 0..(MaxAttempts - 2)
        Free(k) == Candidate(baseName, k) \notin used
    IN  IF \E k \in tested : Free(k)
        THEN Returned(Candidate(baseName,
                 CHOOSE k \in tested : Free(k) /\ \A j \in 0..(k - 1) : ~Free(j)))
        ELSE Thrown(baseName)

\* The while loop of ensureUnique. A test that finds candidateName unused
\* returns it. After the k-th suffix is built counter is k + 1, and the loop
\* throws when counter > 1000: the last candidate it tests is suffix 999.
ensureUniqueLoop(baseName, used) ==
    LET tested  == 0..(MaxAttempts - 1)
        Free(k) == Candidate(baseName, k) \notin used
    IN  IF \E k \in tested : Free(k)
        THEN Returned(Candidate(baseName,
                 CHOOSE k \in tested : Free(k) /\ \A j \in 0..(k - 1) : ~Free(j)))
        ELSE Thrown(baseName)

\* The result of the call together with the set as the call leaves it.
ensureUnique(baseName, used) ==
    [result |-> ensureUniqueLoop(baseName, used), usedNames |-> used]

-----------------------------------------------------------------------------
(* Inputs of the NameSanitizer calls *)

MaxLen == 3

\* one character of each kind the regular expressions tell apart: a lower-case
\* letter, an upper-case letter, the underscore and a forbidden character
Sigma == {"a", "B", "_", "."}

RECURSIVE StringsUpTo(_)
StringsUpTo(n) ==
    IF n = 0 THEN {<<>>}
    ELSE LET shorter == StringsUpTo(n - 1)
         IN  shorter \cup {Append(s, c) : s \in {t \in shorter : Len(t) = n - 1}, c \in Sigma}

\* p repeated and cut to n characters
Cycle(p, n) == [i \in 1..n |-> p[((i - 1) % Len(p)) + 1]]

\* strings around the 64-character limit
LongStrings ==
    {Cycle(p, n) : p \in {q \in StringsUpTo(2) : q # <<>>},
                   n \in (MaxNameLength - 1)..(MaxNameLength + 2)}

\* the action names of the sanitizeActionName tests
ExampleNames ==
    {<<"u","s","e","r","s",".","g","e","t","B","y","I","d">>,
     <<"$","n","o","d","e",".","h","e","a","l","t","h">>,
     <<"c","o","m","p","l","e","x",".","a","c","t","i","o","n","-","n","a","m","e","!">>}

StringInputs == StringsUpTo(MaxLen) \cup LongStrings \cup ExampleNames

Suffixed(baseName, k) == Candidate(baseName, k)

\* baseName and its first n numeric suffixes
StormSet(baseName, n) == {baseName} \cup {Suffixed(baseName, k) : k \in 1..n}

NameT == <<"t">>
NameU == <<"u">>

UsedSets ==
    SUBSET {NameT, Suffixed(NameT, 1), Suffixed(NameT, 2),
            Suffixed(Suffixed(NameT, 1), 1), NameU}
    \cup {StormSet(NameT, n) : n \in (MaxAttempts - 2)..MaxAttempts}
    \cup {StormSet(NameT, MaxAttempts) \ {Suffixed(NameT, MaxAttempts - 1)}}
    \cup {StormSet(NameT, MaxAttempts) \ {Suffixed(NameT, MaxAttempts \div 2)}}

NsInputs ==
    {[input |-> s, used |-> {}] : s \in StringInputs}
    \cup {[input |-> c, used |-> u] : c \in {NameT, Suffixed(NameT, 1)}, u \in UsedSets}

NoCall == [fn |-> "none"]

-----------------------------------------------------------------------------
(* JavaScript objects with string keys: functions from a finite set of keys *)

EmptyObject == [k \in {} |-> 0]

\* { ...a } : a fresh object with a's own properties
Spread(a) == [k \in DOMAIN a |-> a[k]]

\* target[key] = value
SetProperty(target, key, value) == (key :> value) @@ target

\* Object.assign(target, source): source's properties are written onto target
\* one after the other
RECURSIVE AssignKeys(_, _, _)
AssignKeys(target, source, keys) ==
    IF keys = {} THEN target
    ELSE LET k == CHOOSE x \in keys : TRUE
         IN  AssignKeys(SetProperty(target, k, source[k]), source, keys \ {k})

ObjectAssign(target, source) == AssignKeys(target, source, DOMAIN source)

-----------------------------------------------------------------------------
(* JavaScript values, as the parameter schemas of the actions hold them *)

JsUndefined == [t |-> "undefined"]
JsNull == [t |-> "null"]
JsBoolean(b) == [t |-> "boolean", v |-> b]
JsNumber(n) == [t |-> "number", v |-> n]
\* a string: v is its sequence of characters
JsString(chars) == [t |-> "string", v |-> chars]
\* an array: v is its sequence of elements
JsArray(elements) == [t |-> "array", v |-> elements]
\* a plain object: v maps its own keys to their values
JsObject(properties) == [t |-> "object", v |-> properties]

\* !!value
Truthy(value) ==
    CASE value.t = "undefined" -> FALSE
      [] value.t = "null"      -> FALSE
      [] value.t = "boolean"   -> value.v
      [] value.t = "number"    -> value.v # 0
      [] value.t = "string"    -> value.v # <<>>
      [] OTHER                 -> TRUE

\* typeof value === "object" && !Array.isArray(value), for a value that is not null
IsPlainObject(value) == value.t = "object"

\* key in value, for a key that no prototype defines: an own key of a plain
\* object (the keys asked for are never array indices)
HasKey(value, key) == value.t = "object" /\ key \in DOMAIN value.v

\* `key in value` throws a TypeError when value is not an object
InThrows(value) == value.t \notin {"object", "array"}

\* value[key], for such a key: undefined when the key is absent
GetProperty(value, key) == IF HasKey(value, key) THEN value.v[key] ELSE JsUndefined

\* String(i) for an array index
IndexKey(i) ==
    IF i < 10 THEN DigitSeq[i + 1]
    ELSE DigitSeq[(i \div 10) + 1] \o DigitSeq[(i % 10) + 1]

\* Object.entries(value) as a mapping from key to value: the own properties of
\* an object, the elements of an array and the characters of a string under
\* their indices, nothing for a number or a boolean
ObjectEntries(value) ==
    CASE value.t = "object" -> value.v
      [] value.t = "array"  -> [k \in {IndexKey(i - 1) : i \in 1..Len(value.v)} |->
                                  value.v[CHOOSE i \in 1..Len(value.v) : IndexKey(i - 1) = k]]
      [] value.t = "string" -> [k \in {IndexKey(i - 1) : i \in 1..Len(value.v)} |->
                                  JsString(<<value.v[CHOOSE i \in 1..Len(value.v) :
                                                         IndexKey(i - 1) = k]>>)]
      [] OTHER              -> EmptyObject

-----------------------------------------------------------------------------
(* SchemaFactory *)

\* the zod types SchemaFactory makes
ZAny == [z |-> "any"]
ZString == [z |-> "string"]
ZNumber == [z |-> "number"]
ZBoolean == [z |-> "boolean"]
ZDate == [z |-> "date"]
ZEmail == [z |-> "string", check |-> "email"]
ZUrl == [z |-> "string", check |-> "url"]
ZUuid == [z |-> "string", check |-> "uuid"]
ZArray(element) == [z |-> "array", element |-> element]
ZObject(shape) == [z |-> "object", shape |-> shape]
\* zodType.optional()
ZOptional(inner) == [z |-> "optional", inner |-> inner]
\* in place of a type: the call that was to make it threw a TypeError
ZTypeError == [z |-> "TypeError"]

TagString == <<"s","t","r","i","n","g">>
TagNumber == <<"n","u","m","b","e","r">>
TagBoolean == <<"b","o","o","l","e","a","n">>
TagDate == <<"d","a","t","e">>
TagEmail == <<"e","m","a","i","l">>
TagUrl == <<"u","r","l">>
TagUuid == <<"u","u","i","d">>
TagArray == <<"a","r","r","a","y">>
TagObject == <<"o","b","j","e","c","t">>

\* the switch of convertStringType over a value known to be a string
convertStringType(propSchema) ==
    CASE propSchema = TagString  -> ZString
      [] propSchema = TagNumber  -> ZNumber
      [] propSchema = TagBoolean -> ZBoolean
      [] propSchema = TagDate    -> ZDate
      [] propSchema = TagEmail   -> ZEmail
      [] propSchema = TagUrl     -> ZUrl
      [] propSchema = TagUuid    -> ZUuid
      [] OTHER                   -> ZAny

\* a switch of its own for the type of a mapping, without the date case
convertTypeTag_ownSwitch(tag) ==
    IF tag.t = "string" /\ tag.v # TagDate THEN convertStringType(tag.v) ELSE ZAny

\* convertStringType(propSchema.type): the switch compares with ===, so a type
\* that is not a string takes the default
convertTypeTag(tag) ==
    IF tag.t = "string" THEN convertStringType(tag.v) ELSE ZAny

MetadataKeys == {"$$strict", "$$async"}

RECURSIVE convertToZodSchemaProps(_)
RECURSIVE convertArrayType(_)
RECURSIVE convertObjectType(_)

\* the chain without its typeof test: whatever is neither a string nor an
\* array is taken for a mapping
convertProp_noTypeofCheck(propSchema) ==
    IF propSchema.t = "string" THEN convertStringType(propSchema.v)
    ELSE IF propSchema.t = "array" THEN convertArrayType(propSchema)
    ELSE convertObjectType(propSchema)

\* the if / else if chain in the loop of convertToZodSchemaProps
convertProp(propSchema) ==
    IF propSchema.t = "string" THEN convertStringType(propSchema.v)
    ELSE IF propSchema.t = "array" THEN convertArrayType(propSchema)
    ELSE IF propSchema.t = "object" THEN convertObjectType(propSchema)
    ELSE ZAny

\* itemProps.item || z.any()
ItemOrAny(itemProps) ==
    IF "item" \in DOMAIN itemProps THEN itemProps["item"] ELSE ZAny

\* the loop without its `continue` for $$strict and $$async
convertToZodSchemaProps_keepMetadata(schema) ==
    IF ~Truthy(schema) THEN EmptyObject
    ELSE IF IsPlainObject(schema)
         THEN LET declared == GetProperty(schema, "props")
                  props    == IF Truthy(declared) THEN declared ELSE schema
                  entries  == ObjectEntries(props)
              IN  [key \in DOMAIN entries |-> convertProp(entries[key])]
         ELSE EmptyObject

convertToZodSchemaProps(schema) ==
    IF ~Truthy(schema) THEN EmptyObject
    ELSE IF IsPlainObject(schema)
         THEN LET declared == GetProperty(schema, "props")
                  props    == IF Truthy(declared) THEN declared ELSE schema
                  entries  == ObjectEntries(props)
              IN  [key \in DOMAIN entries \ MetadataKeys |-> convertProp(entries[key])]
         ELSE EmptyObject

convertArrayType(propSchema) ==
    IF Len(propSchema.v) = 0 THEN ZArray(ZAny)
    ELSE ZArray(ItemOrAny(
             convertToZodSchemaProps(JsObject([k \in {"item"} |-> propSchema.v[1]]))))

\* the array branch of convertObjectType
convertTypedArray(propSchema) ==
    IF HasKey(propSchema, "items") /\ Truthy(GetProperty(propSchema, "items"))
    THEN ZArray(ItemOrAny(
             convertToZodSchemaProps(
                 JsObject([k \in {"item"} |-> GetProperty(propSchema, "items")]))))
    ELSE ZArray(ZAny)

IsTypedArray(propSchema) ==
    HasKey(propSchema, "type") /\ GetProperty(propSchema, "type") = JsString(TagArray)

IsNestedObject(propSchema) ==
    \/ HasKey(propSchema, "type") /\ GetProperty(propSchema, "type") = JsString(TagObject)
    \/ HasKey(propSchema, "props")

\* convertObjectType with a fallback branch that gives z.any() for every
\* mapping without a type or props key
convertObjectType_bareIsAny(propSchema) ==
    IF ~Truthy(propSchema) THEN ZAny
    ELSE IF InThrows(propSchema) THEN ZTypeError
    ELSE IF IsTypedArray(propSchema) THEN convertTypedArray(propSchema)
    ELSE IF IsNestedObject(propSchema) THEN ZObject(convertToZodSchemaProps(propSchema))
    ELSE IF HasKey(propSchema, "type")
    THEN LET zodType == convertTypeTag(GetProperty(propSchema, "type"))
         IN  IF GetProperty(propSchema, "optional") = JsBoolean(TRUE)
             THEN ZOptional(zodType)
             ELSE zodType
    ELSE ZAny

\* convertObjectType that honours the optional flag on nested objects too
convertObjectType_optionalNestedObject(propSchema) ==
    IF ~Truthy(propSchema) THEN ZAny
    ELSE IF InThrows(propSchema) THEN ZTypeError
    ELSE IF IsTypedArray(propSchema) THEN convertTypedArray(propSchema)
    ELSE IF IsNestedObject(propSchema)
    THEN IF GetProperty(propSchema, "optional") = JsBoolean(TRUE)
         THEN ZOptional(ZObject(convertToZodSchemaProps(propSchema)))
         ELSE ZObject(convertToZodSchemaProps(propSchema))
    ELSE IF HasKey(propSchema, "type")
    THEN LET zodType == convertTypeTag(GetProperty(propSchema, "type"))
         IN  IF GetProperty(propSchema, "optional") = JsBoolean(TRUE)
             THEN ZOptional(zodType)
             ELSE zodType
    ELSE LET nestedProps == convertToZodSchemaProps(propSchema)
         IN  IF DOMAIN nestedProps = {} THEN ZAny
             ELSE IF GetProperty(propSchema, "optional") = JsBoolean(TRUE)
                  THEN ZOptional(ZObject(nestedProps))
                  ELSE ZObject(nestedProps)

\* Every test of the chain starts with `propSchema &&`: a falsy value fails
\* them all and takes the last branch, where convertToZodSchemaProps gives it
\* no properties. A truthy value that is not an object makes `"type" in
\* propSchema` throw.
convertObjectType(propSchema) ==
    IF ~Truthy(propSchema) THEN ZAny
    ELSE IF InThrows(propSchema) THEN ZTypeError
    ELSE IF IsTypedArray(propSchema) THEN convertTypedArray(propSchema)
    ELSE IF IsNestedObject(propSchema) THEN ZObject(convertToZodSchemaProps(propSchema))
    ELSE IF HasKey(propSchema, "type")
    THEN LET zodType == convertTypeTag(GetProperty(propSchema, "type"))
         IN  IF GetProperty(propSchema, "optional") = JsBoolean(TRUE)
             THEN ZOptional(zodType)
             ELSE zodType
    ELSE LET nestedProps == convertToZodSchemaProps(propSchema)
         IN  IF DOMAIN nestedProps = {} THEN ZAny
             ELSE IF GetProperty(propSchema, "optional") = JsBoolean(TRUE)
                  THEN ZOptional(ZObject(nestedProps))
                  ELSE ZObject(nestedProps)

\* SchemaFactory.build
build(params) ==
    IF ~Truthy(params) THEN ZObject(EmptyObject)
    ELSE ZObject(convertToZodSchemaProps(params))

-----------------------------------------------------------------------------
(* ServiceCatalogue: the build *)

NoError == [ok |-> TRUE, name |-> <<>>]

StartsWith(s, prefix) ==
    /\ Len(prefix) <= Len(s)
    /\ SubSeq(s, 1, Len(prefix)) = prefix

EndsWithStar(pattern) == Len(pattern) > 0 /\ pattern[Len(pattern)] = "*"

\* isActionAllowed that takes every pattern for a prefix, starred or not
isActionAllowed_everyPatternPrefix(actionName, allowPatterns) ==
    \E i \in 1..Len(allowPatterns) :
        LET pattern == allowPatterns[i]
        IN  IF EndsWithStar(pattern)
            THEN StartsWith(actionName, SubSeq(pattern, 1, Len(pattern) - 1))
            ELSE StartsWith(actionName, pattern)

isActionAllowed(actionName, allowPatterns) ==
    \E i \in 1..Len(allowPatterns) :
        LET pattern == allowPatterns[i]
        IN  IF pattern = <<"*">> THEN TRUE
            ELSE IF EndsWithStar(pattern)
                 THEN StartsWith(actionName, SubSeq(pattern, 1, Len(pattern) - 1))
                 ELSE actionName = pattern

IsAllowedAction(action, allowPatterns) == isActionAllowed(action.name, allowPatterns)

filterAllowedActions(acts, allowPatterns) ==
    SelectSeq(acts, LAMBDA action : IsAllowedAction(action, allowPatterns))

\* An abstraction of the synthesized text: it is a function of the action name.
generateToolDescription(actionName) == [generatedFor |-> actionName]

\* The fields of the instance the build writes, with the history of the
\* createToolConfig calls and the error that ended the build, if any.
EmptyCatalogue ==
    [nameMap |-> EmptyObject, toolConfigs |-> EmptyObject, usedNames |-> {},
     created |-> <<>>, error |-> NoError]

\* value?.key
OptionalChain(value, key) ==
    IF value.t \in {"undefined", "null"} THEN JsUndefined ELSE GetProperty(value, key)

\* action?.definition?.params || action.action?.params || {}
paramsSchema(action) ==
    LET fromDefinition == OptionalChain(action.definition, "params")
        fromAction     == OptionalChain(action.action, "params")
    IN  IF Truthy(fromDefinition) THEN fromDefinition
        ELSE IF Truthy(fromAction) THEN fromAction
        ELSE JsObject(EmptyObject)

\* value && typeof value === "object" && "optional" in value: every zod type
\* is an object with the method optional
HasOptionalMethod(value) ==
    value.z \in {"any", "string", "number", "boolean", "date", "array", "object", "optional"}

\* the loop without its hasOwnProperty test: every field becomes optional
newShape_everyField(shape, paramOverrides) ==
    [key \in DOMAIN shape |->
        IF HasOptionalMethod(shape[key]) THEN ZOptional(shape[key]) ELSE shape[key]]

\* the loop over Object.entries(shape) that fills newShape
newShape(shape, paramOverrides) ==
    [key \in DOMAIN shape |->
        IF key \in DOMAIN paramOverrides /\ HasOptionalMethod(shape[key])
        THEN ZOptional(shape[key])
        ELSE shape[key]]

\* the handler createToolConfig makes: an async function closed over
\* paramOverrides and originalActionName
BuiltHandler == "closure"

\* this.toolConfigs[toolName] = { description, schema, handler }; the handler
\* closes over paramOverrides and over originalActionName = nameMap[toolName].
createToolConfig(st, toolName, action, description, hasOverrides, paramOverrides) ==
    LET zodSchema == build(paramsSchema(action))
        withOverrides ==
            IF hasOverrides /\ zodSchema.z = "object"
            THEN ZObject(newShape(zodSchema.shape, paramOverrides))
            ELSE zodSchema
        originalActionName ==
            IF toolName \in DOMAIN st.nameMap THEN st.nameMap[toolName] ELSE <<>>
        config == [description |-> description,
                   schema |-> IF withOverrides.z = "object" THEN withOverrides.shape
                              ELSE EmptyObject,
                   handler |-> BuiltHandler,
                   hasOverrides |-> hasOverrides,
                   paramOverrides |-> paramOverrides,
                   originalActionName |-> originalActionName]
    IN  [st EXCEPT !.toolConfigs = SetProperty(@, toolName, config)]

\* the registration without usedNames.add(finalName)
RegisterName_noAdd(st, finalName, actionName, setAfterCall) ==
    [st EXCEPT !.nameMap = SetProperty(@, finalName, actionName),
               !.usedNames = setAfterCall]

\* this.nameMap[finalName] = actionName; this.usedNames.add(finalName)
RegisterName(st, finalName, actionName, setAfterCall) ==
    [st EXCEPT !.nameMap = SetProperty(@, finalName, actionName),
               !.usedNames = setAfterCall \cup {finalName}]

Logged(st, finalName, actionName, pass, baseName) ==
    [st EXCEPT !.created = Append(@, [name |-> finalName, action |-> actionName,
                                      pass |-> pass, base |-> baseName])]

\* allowedActions.find((a) => a.name === name): the index of the first match, 0 if none
FindAction(allowedActions, name) ==
    LET hits == {i \in 1..Len(allowedActions) : allowedActions[i].name = name}
    IN  IF hits = {} THEN 0 ELSE CHOOSE i \in hits : \A j \in hits : i <= j

\* the iteration with the name reserved before the target action is looked up
processCustomTool_reserveBeforeLookup(st, customTool, allowedActions) ==
    LET found     == FindAction(allowedActions, customTool.action)
        safeName  == stripForbidden(customTool.name)
        unique    == ensureUnique(safeName, st.usedNames)
        finalName == unique.result.name
    IN  IF ~unique.result.ok
        THEN [st EXCEPT !.error = unique.result, !.usedNames = unique.usedNames]
        ELSE IF found = 0
             THEN [st EXCEPT !.usedNames = unique.usedNames \cup {finalName}]
             ELSE Logged(
                    createToolConfig(
                        RegisterName(st, finalName, customTool.action, unique.usedNames),
                        finalName, allowedActions[found], customTool.description,
                        customTool.hasParams, customTool.params),
                    finalName, customTool.action, "custom", safeName)

\* the iteration that takes the configured name as it is
processCustomTool_noStrip(st, customTool, allowedActions) ==
    LET found == FindAction(allowedActions, customTool.action)
    IN  IF found = 0 THEN st
        ELSE LET unique    == ensureUnique(customTool.name, st.usedNames)
                 finalName == unique.result.name
             IN  IF ~unique.result.ok
                 THEN [st EXCEPT !.error = unique.result, !.usedNames = unique.usedNames]
                 ELSE Logged(
                        createToolConfig(
                            RegisterName(st, finalName, customTool.action, unique.usedNames),
                            finalName, allowedActions[found], customTool.description,
                            customTool.hasParams, customTool.params),
                        finalName, customTool.action, "custom", customTool.name)

\* one iteration of the loop of processCustomTools
processCustomTool(st, customTool, allowedActions) ==
    LET found == FindAction(allowedActions, customTool.action)
    IN  IF found = 0 THEN st
        ELSE LET action    == allowedActions[found]
                 safeName  == stripForbidden(customTool.name)
                 unique    == ensureUnique(safeName, st.usedNames)
                 finalName == unique.result.name
             IN  IF ~unique.result.ok
                 THEN [st EXCEPT !.error = unique.result, !.usedNames = unique.usedNames]
                 ELSE Logged(
                        createToolConfig(
                            RegisterName(st, finalName, customTool.action, unique.usedNames),
                            finalName, action, customTool.description,
                            customTool.hasParams, customTool.params),
                        finalName, customTool.action, "custom", safeName)

\* processRemainingActions without its skip of the actions custom tools claim
hasCustomTool_never(customTools, originalName) == FALSE

hasCustomTool(customTools, originalName) ==
    \E i \in 1..Len(customTools) : customTools[i].action = originalName

\* the iteration that leaves out an action whose sanitized name is taken
processRemainingAction_skipTaken(st, action, customTools) ==
    LET originalName == action.name
        safe         == sanitizeActionName(originalName)
    IN  IF hasCustomTool(customTools, originalName) THEN st
        ELSE IF ~safe.ok THEN [st EXCEPT !.error = safe]
        ELSE IF safe.name \in st.usedNames THEN st
        ELSE Logged(
               createToolConfig(
                   RegisterName(st, safe.name, originalName, st.usedNames),
                   safe.name, action, generateToolDescription(originalName),
                   FALSE, EmptyObject),
               safe.name, originalName, "remaining", safe.name)

\* one iteration of the loop of processRemainingActions
processRemainingAction(st, action, customTools) ==
    LET originalName == action.name
    IN  IF hasCustomTool(customTools, originalName) THEN st
        ELSE LET safe == sanitizeActionName(originalName)
             IN  IF ~safe.ok THEN [st EXCEPT !.error = safe]
                 ELSE LET unique    == ensureUnique(safe.name, st.usedNames)
                          finalName == unique.result.name
                      IN  IF ~unique.result.ok
                          THEN [st EXCEPT !.error = unique.result,
                                          !.usedNames = unique.usedNames]
                          ELSE Logged(
                                 createToolConfig(
                                     RegisterName(st, finalName, originalName,
                                                  unique.usedNames),
                                     finalName, action,
                                     generateToolDescription(originalName),
                                     FALSE, EmptyObject),
                                 finalName, originalName, "remaining", safe.name)

\* The for loops run their iterations lo .. hi from left to right and stop at
\* the first one that throws. The range is split in two halves, the left one
\* first, so that a loop over a thousand elements nests ten levels deep.
RECURSIVE processCustomTools(_, _, _, _, _)
processCustomTools(st, customTools, lo, hi, allowed) ==
    IF lo > hi \/ ~st.error.ok THEN st
    ELSE IF lo = hi THEN processCustomTool(st, customTools[lo], allowed)
    ELSE LET mid == (lo + hi) \div 2
         IN  processCustomTools(
                 processCustomTools(st, customTools, lo, mid, allowed),
                 customTools, mid + 1, hi, allowed)

RECURSIVE processRemainingActions(_, _, _, _, _)
processRemainingActions(st, allowed, lo, hi, customTools) ==
    IF lo > hi \/ ~st.error.ok THEN st
    ELSE IF lo = hi THEN processRemainingAction(st, allowed[lo], customTools)
    ELSE LET mid == (lo + hi) \div 2
         IN  processRemainingActions(
                 processRemainingActions(st, allowed, lo, mid, customTools),
                 allowed, mid + 1, hi, customTools)

\* the whole of buildCatalogue, from an empty instance
buildCatalogue(acts, allowPatterns, customTools) ==
    LET allowed == filterAllowedActions(acts, allowPatterns)
    IN  processRemainingActions(
            processCustomTools(EmptyCatalogue, customTools, 1, Len(customTools), allowed),
            allowed, 1, Len(allowed), customTools)

-----------------------------------------------------------------------------
(* The constructor as a state machine: one step per loop iteration *)

Current ==
    [nameMap |-> nameMap, toolConfigs |-> toolConfigs, usedNames |-> usedNames,
     created |-> created, error |-> error]

allowedActions == filterAllowedActions(actions, allow)

Becomes(st) ==
    /\ nameMap' = st.nameMap
    /\ toolConfigs' = st.toolConfigs
    /\ usedNames' = st.usedNames
    /\ created' = st.created
    /\ error' = st.error
    /\ phase' = IF st.error.ok THEN phase ELSE "failed"
    /\ idx' = idx + 1

\* processCustomTools: the iteration for options.tools[idx]
ProcessCustomTool ==
    /\ phase = "custom"
    /\ idx <= Len(tools)
    /\ Becomes(processCustomTool(Current, tools[idx], allowedActions))
    /\ UNCHANGED <<actions, allow, tools, catalogue, snapshot>>
    /\ UNCHANGED <<dispatchVars, nsVars, sfVars, callerVars, brokerVars>>

\* buildCatalogue: processCustomTools has returned, processRemainingActions starts
StartRemainingActions ==
    /\ phase = "custom"
    /\ idx > Len(tools)
    /\ phase' = "remaining"
    /\ idx' = 1
    /\ UNCHANGED <<actions, allow, tools, nameMap, toolConfigs, usedNames, created,
                   error, catalogue, snapshot>>
    /\ UNCHANGED <<dispatchVars, nsVars, sfVars, callerVars, brokerVars>>

\* processRemainingActions: the iteration for allowedActions[idx]
ProcessRemainingAction ==
    /\ phase = "remaining"
    /\ idx <= Len(allowedActions)
    /\ Becomes(processRemainingAction(Current, allowedActions[idx], tools))
    /\ UNCHANGED <<actions, allow, tools, catalogue, snapshot>>
    /\ UNCHANGED <<dispatchVars, nsVars, sfVars, callerVars, brokerVars>>

\* the constructor returns: the caller now holds the instance
ConstructorReturns ==
    /\ phase = "remaining"
    /\ idx > Len(allowedActions)
    /\ phase' = "done"
    /\ catalogue' = "ready"
    /\ UNCHANGED <<actions, allow, tools, idx, nameMap, toolConfigs, usedNames,
                   created, error, snapshot>>
    /\ UNCHANGED <<dispatchVars, nsVars, sfVars, callerVars, brokerVars>>

\* `new ServiceCatalogue(broker, options)` from entry to return or throw, as
\* the one synchronous step it is for every other piece of code
Construct ==
    /\ phase = "custom"
    /\ idx = 1
    /\ LET st == buildCatalogue(actions, allow, tools)
       IN  /\ nameMap' = st.nameMap
           /\ toolConfigs' = st.toolConfigs
           /\ usedNames' = st.usedNames
           /\ created' = st.created
           /\ error' = st.error
           /\ phase' = IF st.error.ok THEN "done" ELSE "failed"
           /\ catalogue' = IF st.error.ok THEN "ready" ELSE "none"
    /\ UNCHANGED <<actions, allow, tools, idx, snapshot>>
    /\ UNCHANGED <<dispatchVars, nsVars, sfVars, callerVars, brokerVars>>

\* getTools(): return { ...this.toolConfigs }
getTools == Spread(toolConfigs)

\* The object each property of the returned mapping refers to. The spread
\* copies the references: the property for a name refers to the very
\* ToolConfig object this.toolConfigs holds under that name.
InternalEntry(toolName) == [internal |-> toolName]

getToolsEntries == [toolName \in DOMAIN toolConfigs |-> InternalEntry(toolName)]

GetTools ==
    /\ catalogue = "ready"
    /\ snapshot' = [taken |-> TRUE, tools |-> getTools, entries |-> getToolsEntries]
    /\ UNCHANGED <<actions, allow, tools, phase, idx, nameMap, toolConfigs,
                   usedNames, created, error, catalogue>>
    /\ UNCHANGED <<dispatchVars, nsVars, sfVars, callerVars, brokerVars>>

-----------------------------------------------------------------------------
(* Inputs of the build *)

MaxActions == 3
MaxTools == 2

NameADotB == <<"a", ".", "b">>
NameAUnderB == <<"a", "_", "b">>
NameASpaceB == <<"a", " ", "b">>
NameC == <<"c">>
NameZ == <<"z", "z">>
\* a legal name of exactly 64 characters
LongName == Cycle(<<"x">>, MaxNameLength)

\* The registry of the model: what getActionList reports for each action name.
\* a.b declares its params under definition (and others under action, which
\* are then not looked at), c only under action, the 64-character name has a
\* null definition.params; every other action declares none.
ParamsAB ==
    JsObject([k1 |-> JsString(TagString),
              k2 |-> JsObject([type |-> JsString(TagNumber), optional |-> JsBoolean(TRUE)]),
              k3 |-> JsArray(<<JsString(TagString)>>)])
ParamsC == JsObject([k1 |-> JsString(TagNumber), k3 |-> JsString(TagBoolean)])
ParamsLong == JsObject([k2 |-> JsString(TagString)])

DefinitionOf(name) ==
    IF name = NameADotB THEN JsObject([params |-> ParamsAB])
    ELSE IF name = LongName THEN JsObject([params |-> JsNull])
    ELSE JsUndefined

ActionSchemaOf(name) ==
    IF name = NameADotB THEN JsObject([params |-> ParamsLong])
    ELSE IF name = NameC THEN JsObject([params |-> ParamsC])
    ELSE IF name = LongName THEN JsObject([params |-> ParamsLong])
    ELSE JsUndefined

ActionInfo(name) ==
    [name |-> name, definition |-> DefinitionOf(name), action |-> ActionSchemaOf(name)]

ActionNames == {NameADotB, NameAUnderB, NameC, LongName}

PatternStar == <<"*">>
PatternAStar == <<"a", "*">>

AllowLists ==
    {<<>>, <<PatternStar>>, <<PatternAStar>>, <<PatternAStar, NameC>>,
     <<NameC, LongName>>, <<<<"a">>, NameADotB>>}

Keys == {"k1", "k2"}
Object(keys, value) == [k \in keys |-> value]

CustomTool(name, action, description, hasParams, params) ==
    [name |-> name, action |-> action, description |-> description,
     hasParams |-> hasParams, params |-> params]

ToolPinC == CustomTool(NameAUnderB, NameC, "pin c", TRUE, Object({"k1"}, 1))
ToolMissing == CustomTool(NameC, NameZ, "no such action", FALSE, EmptyObject)
ToolLong == CustomTool(LongName, NameC, "long", FALSE, EmptyObject)
ToolPinAB == CustomTool(NameASpaceB, NameADotB, "pin a.b", TRUE, Object(Keys, 1))

CustomTools == {ToolPinC, ToolMissing, ToolLong, ToolPinAB}

Range(s) == {s[i] : i \in DOMAIN s}

\* the sequences over S of length at most n
RECURSIVE SeqsUpTo(_, _)
SeqsUpTo(S, n) ==
    IF n = 0 THEN {<<>>}
    ELSE LET shorter == SeqsUpTo(S, n - 1)
         IN  shorter \cup {Append(s, x) : s \in {t \in shorter : Len(t) = n - 1}, x \in S}

\* those without a repeated element: the registry lists an action name once
DistinctSeqsUpTo(S, n) ==
    {s \in SeqsUpTo(S, n) : Cardinality(Range(s)) = Len(s)}

BuildInput(acts, allowPatterns, customTools) ==
    [actions |-> acts, allow |-> allowPatterns, tools |-> customTools]

BuildInputs ==
    {BuildInput([i \in DOMAIN names |-> ActionInfo(names[i])], allowPatterns, customTools) :
        names \in DistinctSeqsUpTo(ActionNames, MaxActions),
        allowPatterns \in AllowLists,
        customTools \in SeqsUpTo(CustomTools, MaxTools)}

NoSnapshot == [taken |-> FALSE, tools |-> EmptyObject, entries |-> EmptyObject]

\* `new ServiceCatalogue(broker, options)` has read listActions() and is about
\* to run processCustomTools
ConstructorEntered(in) ==
    /\ actions = in.actions
    /\ allow = in.allow
    /\ tools = in.tools
    /\ phase = "custom"
    /\ idx = 1
    /\ nameMap = EmptyCatalogue.nameMap
    /\ toolConfigs = EmptyCatalogue.toolConfigs
    /\ usedNames = EmptyCatalogue.usedNames
    /\ created = EmptyCatalogue.created
    /\ error = EmptyCatalogue.error
    /\ catalogue = "none"
    /\ snapshot = NoSnapshot

DispatchIdle ==
    /\ invocations = <<>>
    /\ brokerCalls = <<>>

NsIdle ==
    /\ nsArgs = [input |-> <<>>, used |-> {}]
    /\ nsOut = NoCall

SfIdle ==
    /\ sfArgs = JsUndefined
    /\ sfOut = NoCall

CallerIdle == callerWrites = <<>>

\* new BridgeBroker(options) and new McpGateway(options, broker) have returned
BrokerIdle ==
    /\ isStarted = FALSE
    /\ inFlight = <<>>
    /\ events = <<>>
    /\ gateway = [isStarted |-> FALSE,
                  serviceCatalogue |-> [built |-> FALSE, by |-> 0],
                  routes |-> 0, server |-> 0, listening |-> {}]

Init ==
    /\ \E in \in BuildInputs : ConstructorEntered(in)
    /\ DispatchIdle
    /\ NsIdle
    /\ SfIdle
    /\ CallerIdle
    /\ BrokerIdle

Next ==
    \/ ProcessCustomTool
    \/ StartRemainingActions
    \/ ProcessRemainingAction
    \/ ConstructorReturns
    \/ GetTools

Spec == Init /\ [][Next]_vars

-----------------------------------------------------------------------------
(* The build with custom tools whose names collide *)

MaxCustom == 3

\* t and "t." ask for the same name, t_1 for the name the second of them
\* gets; a_b is the name the actions a.b and a_b sanitize to
ToolTOnC == CustomTool(<<"t">>, NameC, "t", FALSE, EmptyObject)
ToolTDot == CustomTool(<<"t", ".">>, NameADotB, "t.", FALSE, EmptyObject)
ToolT1 == CustomTool(<<"t", "_", "1">>, NameC, "t_1", FALSE, EmptyObject)

CollidingTools == {ToolTOnC, ToolTDot, ToolT1, ToolPinC, ToolMissing}

CollidingInputs ==
    {BuildInput([i \in DOMAIN names |-> ActionInfo(names[i])], <<PatternStar>>, customTools) :
        names \in {<<NameADotB, NameAUnderB, NameC>>, <<NameC, NameAUnderB>>},
        customTools \in SeqsUpTo(CollidingTools, MaxCustom)}

InitCollisions ==
    /\ \E in \in CollidingInputs : ConstructorEntered(in)
    /\ DispatchIdle
    /\ NsIdle
    /\ SfIdle
    /\ CallerIdle
    /\ BrokerIdle

SpecCollisions == InitCollisions /\ [][Next]_vars

-----------------------------------------------------------------------------
(* The build against a storm of colliding names *)

MaxChain == 30

NameTDot == <<"t", ".">>
NameTDotDot == <<"t", ".", ".">>

ToolT == CustomTool(NameT, NameT, "takes t", FALSE, EmptyObject)

\* The custom tool "t" on action t takes the name t, the actions t_1 .. t_n
\* keep their names, and the actions "t." and "t..", which both sanitize to t,
\* then need the suffixes n + 1 and n + 2.
StormNames(n, colliding) ==
    <<NameT>> \o [i \in 1..n |-> Suffixed(NameT, i)] \o colliding

StormInputs ==
    {BuildInput([i \in DOMAIN names |-> ActionInfo(names[i])], <<PatternStar>>, <<ToolT>>) :
        names \in {StormNames(n, colliding) :
                      n \in 0..MaxChain \cup {MaxAttempts - 2, MaxAttempts - 1},
                      colliding \in {<<>>, <<NameTDot>>, <<NameTDot, NameTDotDot>>}}}

InitStorm ==
    /\ \E in \in StormInputs : ConstructorEntered(in)
    /\ DispatchIdle
    /\ NsIdle
    /\ SfIdle
    /\ CallerIdle
    /\ BrokerIdle

NextStorm ==
    \/ Construct
    \/ GetTools

SpecStorm == InitStorm /\ [][NextStorm]_vars

-----------------------------------------------------------------------------
(* The handlers of the tools *)

MaxInvocations == 2

ResultObject == [type |-> "object"]
ResultString == [type |-> "string"]
ResultNull == [type |-> "null"]
ResultUndefined == [type |-> "undefined"]
\* what the promise of broker.call can resolve to: an action may return any
\* JSON value, or nothing
Results == {ResultObject, ResultString, ResultNull, ResultUndefined}
Errors == {"Service unavailable", "Request timed out"}
NoMappingError == "No action mapping found for tool"
NotThrown == "nothing thrown"

\* JSON.stringify(value): undefined for undefined, a string otherwise
JSONstringify(value) ==
    IF value.type = "undefined" THEN value
    ELSE [type |-> "string", json |-> value]

NoResponse == [content |-> <<>>]

\* the merge the other way round: the caller's values win
finalArgs_callerWins(config, args) ==
    IF config.hasOverrides
    THEN ObjectAssign(Spread(config.paramOverrides), args)
    ELSE Spread(args)

\* const finalArgs = { ...args }; if (paramOverrides) Object.assign(finalArgs, paramOverrides)
finalArgs(config, args) ==
    IF config.hasOverrides
    THEN ObjectAssign(Spread(args), config.paramOverrides)
    ELSE Spread(args)

\* the handler up to its await: the invocation, and the broker.call it made, if any
handlerStart(toolName, config, args) ==
    IF config.originalActionName = <<>>
    THEN [invocation |-> [tool |-> toolName, args |-> args, state |-> "rejected",
                          response |-> NoResponse, thrown |-> NoMappingError],
          calls |-> <<>>]
    ELSE [invocation |-> [tool |-> toolName, args |-> args, state |-> "awaiting",
                          response |-> NoResponse, thrown |-> NotThrown],
          calls |-> <<[actionName |-> config.originalActionName,
                       params |-> finalArgs(config, args)]>>]

\* return { content: [{ type: "text", text: JSON.stringify(result) }] }
handlerOnResolve(invocation, result) ==
    [invocation EXCEPT
        !.state = "resolved",
        !.response = [content |-> <<[type |-> "text", text |-> JSONstringify(result)]>>]]

\* a catch block that answers with the error as text instead of rethrowing
handlerOnReject_swallow(invocation, config, err) ==
    [invocation |->
        [invocation EXCEPT
            !.state = "resolved",
            !.response = [content |-> <<[type |-> "text",
                                         text |-> [type |-> "string",
                                                   json |-> ResultObject]]>>]],
     calls |-> <<>>]

\* catch (error) { console.error(...); throw error; }: the invocation, and
\* the broker.call the catch block makes (none)
handlerOnReject(invocation, config, err) ==
    [invocation |-> [invocation EXCEPT !.state = "rejected", !.thrown = err],
     calls |-> <<>>]

\* the entries of brokerCalls for the calls invocation i has just made
Outbound(i, calls) ==
    [c \in 1..Len(calls) |->
        [invocation |-> i, actionName |-> calls[c].actionName,
         params |-> calls[c].params, outcome |-> "pending",
         result |-> ResultUndefined, error |-> NotThrown]]

\* a client calls the handler of a tool it got from getTools()
InvokeHandler ==
    /\ snapshot.taken
    /\ Len(invocations) < MaxInvocations
    /\ \E toolName \in DOMAIN snapshot.tools, args \in {Object(S, 2) : S \in SUBSET Keys} :
          LET h == handlerStart(toolName, snapshot.tools[toolName], args)
              i == Len(invocations) + 1
          IN  /\ invocations' = Append(invocations, h.invocation)
              /\ brokerCalls' = brokerCalls \o Outbound(i, h.calls)
    /\ UNCHANGED <<catalogueVars, nsVars, sfVars, callerVars, brokerVars>>

\* one slot for the pending request instead of one closure per invocation:
\* the result of any call settles the oldest invocation still waiting
BrokerResolves_settlesOldest ==
    \E j \in 1..Len(brokerCalls), result \in Results :
        /\ brokerCalls[j].outcome = "pending"
        /\ brokerCalls' = [brokerCalls EXCEPT ![j].outcome = "resolved", ![j].result = result]
        /\ LET waiting == {i \in DOMAIN invocations : invocations[i].state = "awaiting"}
               oldest  == CHOOSE i \in waiting : \A k \in waiting : i <= k
           IN  invocations' = [invocations EXCEPT ![oldest] = handlerOnResolve(@, result)]
        /\ UNCHANGED <<catalogueVars, nsVars, sfVars, callerVars, brokerVars>>

\* the promise of broker.call resolves
BrokerResolves ==
    \E j \in 1..Len(brokerCalls), result \in Results :
        /\ brokerCalls[j].outcome = "pending"
        /\ brokerCalls' = [brokerCalls EXCEPT ![j].outcome = "resolved", ![j].result = result]
        /\ invocations' = [invocations EXCEPT ![brokerCalls[j].invocation] =
                              handlerOnResolve(@, result)]
        /\ UNCHANGED <<catalogueVars, nsVars, sfVars, callerVars, brokerVars>>

\* the promise of broker.call rejects
BrokerRejects ==
    \E j \in 1..Len(brokerCalls), err \in Errors :
        /\ brokerCalls[j].outcome = "pending"
        /\ LET i == brokerCalls[j].invocation
               h == handlerOnReject(invocations[i], snapshot.tools[invocations[i].tool], err)
           IN  /\ brokerCalls' =
                     [brokerCalls EXCEPT ![j].outcome = "rejected", ![j].error = err]
                     \o Outbound(i, h.calls)
               /\ invocations' = [invocations EXCEPT ![i] = h.invocation]
        /\ UNCHANGED <<catalogueVars, nsVars, sfVars, callerVars, brokerVars>>

DispatchInputs ==
    {BuildInput(<<ActionInfo(NameADotB), ActionInfo(NameC)>>, <<PatternStar>>, <<ToolPinC>>),
     BuildInput(<<ActionInfo(NameADotB), ActionInfo(NameAUnderB)>>, <<PatternAStar>>,
                <<ToolPinAB, ToolMissing>>),
     BuildInput(<<ActionInfo(NameC)>>, <<PatternStar>>, <<ToolLong>>)}

InitDispatch ==
    /\ \E in \in DispatchInputs : ConstructorEntered(in)
    /\ DispatchIdle
    /\ NsIdle
    /\ SfIdle
    /\ CallerIdle
    /\ BrokerIdle

NextDispatch ==
    \/ Next
    \/ InvokeHandler
    \/ BrokerResolves
    \/ BrokerRejects

SpecDispatch == InitDispatch /\ [][NextDispatch]_vars

-----------------------------------------------------------------------------
(* The holder of a getTools() result writes to it *)

MaxWrites == 2

\* a key no tool of the model has
NewKey == <<"n", "e", "w">>

\* a ToolConfig object the caller made, the n-th object it made
CallerEntry(n) == [caller |-> n]
CallerConfig ==
    [description |-> "caller's", schema |-> EmptyObject, handler |-> "caller's function",
     hasOverrides |-> FALSE, paramOverrides |-> EmptyObject, originalActionName |-> <<>>]

\* the values the caller writes to the fields of an entry
CallerFieldValues ==
    [description |-> "changed by caller", handler |-> "caller's function"]

\* delete object[key]
DeleteProperty(object, key) == [k \in DOMAIN object \ {key} |-> object[k]]

\* returned[key] = value: a write to the object getTools returned, which is
\* not this.toolConfigs
CallerSetsKey ==
    /\ snapshot.taken
    /\ Len(callerWrites) < MaxWrites
    /\ \E key \in DOMAIN snapshot.tools \cup {NewKey},
          from \in DOMAIN snapshot.tools \cup {NewKey} :
          LET made   == from = NewKey
              value  == IF made THEN CallerConfig ELSE snapshot.tools[from]
              object == IF made THEN CallerEntry(Len(callerWrites) + 1)
                        ELSE snapshot.entries[from]
          IN  /\ from # key
              /\ snapshot' = [snapshot EXCEPT
                                 !.tools = SetProperty(@, key, value),
                                 !.entries = SetProperty(@, key, object)]
              /\ callerWrites' = Append(callerWrites,
                                        [op |-> "set", key |-> key, object |-> object])
    /\ UNCHANGED <<actions, allow, tools, phase, idx, nameMap, toolConfigs,
                   usedNames, created, error, catalogue>>
    /\ UNCHANGED <<dispatchVars, nsVars, sfVars, brokerVars>>

\* delete returned[key]
CallerDeletesKey ==
    /\ snapshot.taken
    /\ Len(callerWrites) < MaxWrites
    /\ \E key \in DOMAIN snapshot.tools :
          /\ snapshot' = [snapshot EXCEPT
                             !.tools = DeleteProperty(@, key),
                             !.entries = DeleteProperty(@, key)]
          /\ callerWrites' = Append(callerWrites,
                                    [op |-> "delete", key |-> key,
                                     object |-> snapshot.entries[key]])
    /\ UNCHANGED <<actions, allow, tools, phase, idx, nameMap, toolConfigs,
                   usedNames, created, error, catalogue>>
    /\ UNCHANGED <<dispatchVars, nsVars, sfVars, brokerVars>>

\* returned[key].description = ..., returned[key].handler = ...: a write to
\* the object the property refers to. Every property that refers to that
\* object shows the new value, the property of this.toolConfigs included.
CallerSetsField ==
    /\ snapshot.taken
    /\ Len(callerWrites) < MaxWrites
    /\ \E key \in DOMAIN snapshot.tools, field \in DOMAIN CallerFieldValues :
          LET object == snapshot.entries[key]
              value  == CallerFieldValues[field]
          IN  /\ snapshot' = [snapshot EXCEPT !.tools =
                    [k \in DOMAIN snapshot.tools |->
                        IF snapshot.entries[k] = object
                        THEN [snapshot.tools[k] EXCEPT ![field] = value]
                        ELSE snapshot.tools[k]]]
              /\ toolConfigs' =
                    [toolName \in DOMAIN toolConfigs |->
                        IF InternalEntry(toolName) = object
                        THEN [toolConfigs[toolName] EXCEPT ![field] = value]
                        ELSE toolConfigs[toolName]]
              /\ callerWrites' = Append(callerWrites,
                                        [op |-> "field", key |-> key, object |-> object,
                                         field |-> field])
    /\ UNCHANGED <<actions, allow, tools, phase, idx, nameMap,
                   usedNames, created, error, catalogue>>
    /\ UNCHANGED <<dispatchVars, nsVars, sfVars, brokerVars>>

InitSnapshot ==
    /\ \E in \in DispatchInputs : ConstructorEntered(in)
    /\ DispatchIdle
    /\ NsIdle
    /\ SfIdle
    /\ CallerIdle
    /\ BrokerIdle

NextSnapshot ==
    \/ Construct
    \/ GetTools
    \/ CallerSetsKey
    \/ CallerDeletesKey
    \/ CallerSetsField

SpecSnapshot == InitSnapshot /\ [][NextSnapshot]_vars

-----------------------------------------------------------------------------
(* Calls of the NameSanitizer functions on drawn arguments *)

CallStripForbidden ==
    /\ nsOut = NoCall
    /\ nsOut' = [fn |-> "stripForbidden", value |-> stripForbidden(nsArgs.input)]
    /\ UNCHANGED <<nsArgs, catalogueVars, dispatchVars, sfVars, callerVars, brokerVars>>

\* stripForbidden called on what stripForbidden returned
CallStripForbiddenAgain ==
    /\ nsOut.fn = "stripForbidden"
    /\ nsOut' = [fn |-> "stripForbidden again", first |-> nsOut.value,
                 value |-> stripForbidden(nsOut.value)]
    /\ UNCHANGED <<nsArgs, catalogueVars, dispatchVars, sfVars, callerVars, brokerVars>>

CallToSnake ==
    /\ nsOut = NoCall
    /\ nsOut' = [fn |-> "toSnake", value |-> toSnake(nsArgs.input)]
    /\ UNCHANGED <<nsArgs, catalogueVars, dispatchVars, sfVars, callerVars, brokerVars>>

CallSanitizeActionName ==
    /\ nsOut = NoCall
    /\ nsOut' = [fn |-> "sanitizeActionName", call |-> sanitizeActionName(nsArgs.input)]
    /\ UNCHANGED <<nsArgs, catalogueVars, dispatchVars, sfVars, callerVars, brokerVars>>

CallEnsureUnique ==
    /\ nsOut = NoCall
    /\ nsOut' = [fn |-> "ensureUnique", unique |-> ensureUnique(nsArgs.input, nsArgs.used)]
    /\ UNCHANGED <<nsArgs, catalogueVars, dispatchVars, sfVars, callerVars, brokerVars>>

InitNames ==
    /\ ConstructorEntered(BuildInput(<<>>, <<>>, <<>>))
    /\ DispatchIdle
    /\ nsArgs \in NsInputs
    /\ nsOut = NoCall
    /\ SfIdle
    /\ CallerIdle
    /\ BrokerIdle

NextNames ==
    \/ CallStripForbidden
    \/ CallStripForbiddenAgain
    \/ CallToSnake
    \/ CallSanitizeActionName
    \/ CallEnsureUnique

SpecNames == InitNames /\ [][NextNames]_vars

-----------------------------------------------------------------------------
(* Calls of SchemaFactory.build on drawn parameter schemas *)

MaxSchemaDepth == 2

TagUnknown == <<"x">>
PrimitiveTags == {TagString, TagNumber, TagBoolean, TagDate, TagEmail, TagUrl, TagUuid}

JsTrue == JsBoolean(TRUE)
JsFalse == JsBoolean(FALSE)

\* the values without parts
SchemaLeaves ==
    {JsUndefined, JsNull, JsTrue, JsFalse, JsNumber(0), JsNumber(1),
     JsString(<<>>), JsString(TagUnknown), JsArray(<<>>), JsObject(EmptyObject)}
    \cup {JsString(tag) : tag \in PrimitiveTags \cup {TagArray, TagObject}}

\* the mappings without parts drawn from below: type tags of every kind, with
\* and without the optional flag, and mappings of metadata keys and leaves only
SchemaTagged ==
    {JsObject([type |-> JsString(tag)]) :
        tag \in PrimitiveTags \cup {TagArray, TagObject, TagUnknown}}
    \cup {JsObject([type |-> JsString(tag), optional |-> flag]) :
            tag \in {TagString, TagEmail, TagArray, TagObject, TagUnknown},
            flag \in {JsTrue, JsFalse, JsString(<<"t","r","u","e">>)}}
    \cup {JsObject([a |-> JsString(tag), b |-> JsObject([type |-> JsString(tag)])]) :
            tag \in PrimitiveTags \cup {TagArray, TagObject, TagUnknown, <<>>}}
    \cup {JsObject([type |-> JsNumber(1)]),
          JsObject([foo |-> JsTrue]),
          JsObject([optional |-> JsTrue]),
          JsObject("$$strict" :> JsTrue),
          JsObject(("$$strict" :> JsTrue) @@ ("$$async" :> JsTrue))}

\* the sequences and mappings with a part x
SchemaAround(x) ==
    {JsArray(<<x>>),
     JsArray(<<x, JsString(TagNumber)>>),
     JsObject([type |-> JsString(TagArray), items |-> x]),
     JsObject([type |-> JsString(TagArray), items |-> x, optional |-> JsTrue]),
     JsObject([type |-> JsString(TagObject), props |-> JsObject([a |-> x])]),
     JsObject([type |-> JsString(TagObject), a |-> x, optional |-> JsTrue]),
     JsObject([props |-> x]),
     JsObject([props |-> JsObject(("$$strict" :> JsTrue) @@ [a |-> x]),
               b |-> JsString(TagString), optional |-> JsTrue]),
     JsObject([a |-> x]),
     JsObject([a |-> x, b |-> JsString(TagString), optional |-> JsTrue]),
     JsObject(("$$strict" :> JsTrue) @@ ("$$async" :> JsFalse) @@ [a |-> x])}

\* the parameter schemas nested at most depth levels deep
RECURSIVE SchemaNodes(_)
SchemaNodes(depth) ==
    IF depth = 0 THEN SchemaLeaves
    ELSE SchemaLeaves \cup SchemaTagged
         \cup UNION {SchemaAround(x) : x \in SchemaNodes(depth - 1)}

CallBuild ==
    /\ sfOut = NoCall
    /\ sfOut' = [fn |-> "build", schema |-> build(sfArgs)]
    /\ UNCHANGED <<sfArgs, catalogueVars, dispatchVars, nsVars, callerVars, brokerVars>>

InitSchema ==
    /\ ConstructorEntered(BuildInput(<<>>, <<>>, <<>>))
    /\ DispatchIdle
    /\ NsIdle
    /\ sfArgs \in SchemaNodes(MaxSchemaDepth)
    /\ sfOut = NoCall
    /\ CallerIdle
    /\ BrokerIdle

NextSchema == CallBuild

SpecSchema == InitSchema /\ [][NextSchema]_vars

-----------------------------------------------------------------------------
(* BridgeBroker and the callers that build a catalogue from it *)

MaxCalls == 3

\* new BridgeError(message), with the error the message was made from
BridgeError(message, cause) ==
    [name |-> "BridgeError", message |-> message, cause |-> cause]
\* new Error(message)
PlainError(message) == [name |-> "Error", message |-> message, cause |-> "none"]
NoFailure == [name |-> "none", message |-> "", cause |-> "none"]

\* what a promise of the Moleculer broker can reject with
MoleculerErrors == {PlainError(message) : message \in Errors}

\* the arguments and results of BridgeBroker.call drawn by the model
CallNames == {NameC, NameZ}
CallParams == {[k1 |-> 1], [k1 |-> 2, k2 |-> 1]}
CallResults == {ResultObject, ResultUndefined}

\* start() up to its first await: the guard, then this.broker.start()
startEntered(started) ==
    IF started
    THEN [stage |-> "rejected",
          error |-> BridgeError("Broker is already started", "none"),
          underlying |-> <<>>]
    ELSE [stage |-> "broker.start", error |-> NoFailure,
          underlying |-> <<"moleculer.start">>]

\* start() once the discovery timer has fired: this.isStarted = true
startOnResolve(started) ==
    [isStarted |-> TRUE, stage |-> "resolved", error |-> NoFailure]

\* start() when this.broker.start() rejects: the catch block
startOnReject(started, err) ==
    [isStarted |-> started, stage |-> "rejected",
     error |-> BridgeError("Failed to start broker", err.message)]

\* stop() up to its first await: the early return, then this.broker.stop()
stopEntered(started) ==
    IF ~started
    THEN [stage |-> "resolved", error |-> NoFailure, underlying |-> <<>>]
    ELSE [stage |-> "broker.stop", error |-> NoFailure,
          underlying |-> <<"moleculer.stop">>]

\* stop() when this.broker.stop() resolves: this.isStarted = false
stopOnResolve(started) ==
    [isStarted |-> FALSE, stage |-> "resolved", error |-> NoFailure]

stopOnReject_clearsFlag(started, err) ==
    [isStarted |-> FALSE, stage |-> "rejected",
     error |-> BridgeError("Failed to stop broker", err.message)]

\* stop() when this.broker.stop() rejects: the catch block
stopOnReject(started, err) ==
    [isStarted |-> started, stage |-> "rejected",
     error |-> BridgeError("Failed to stop broker", err.message)]

listActions_noGuard(started) ==
    [threw |-> FALSE, error |-> NoFailure,
     underlying |-> <<"registry.getActionList">>]

\* listActions(): the guard, then this.broker.registry.getActionList(...)
listActions(started) ==
    IF ~started
    THEN [threw |-> TRUE, error |-> BridgeError("Broker is not started", "none"),
          underlying |-> <<>>]
    ELSE [threw |-> FALSE, error |-> NoFailure,
          underlying |-> <<"registry.getActionList">>]

callEntered_noGuard(started, actionName, params) ==
    [stage |-> "broker.call", error |-> NoFailure,
     underlying |-> <<[actionName |-> actionName, params |-> params]>>]

\* call(actionName, params) up to its await: the guard, then
\* this.broker.call(actionName, params)
callEntered(started, actionName, params) ==
    IF ~started
    THEN [stage |-> "rejected",
          error |-> BridgeError("Broker is not started", "none"),
          underlying |-> <<>>]
    ELSE [stage |-> "broker.call", error |-> NoFailure,
          underlying |-> <<[actionName |-> actionName, params |-> params]>>]

\* call() when this.broker.call resolves: return await ...
callOnResolve(result) ==
    [stage |-> "resolved", error |-> NoFailure, result |-> result]

\* call() when this.broker.call rejects: the catch block
callOnReject(actionName, err) ==
    [stage |-> "rejected",
     error |-> BridgeError("Failed to call action", err.message),
     result |-> ResultUndefined]

\* new ServiceCatalogue(broker, options): the constructor runs buildCatalogue,
\* whose first statement is this.broker.listActions(); an exception of it
\* leaves the constructor
newServiceCatalogue(started) ==
    LET listed == listActions(started)
    IN  [threw |-> listed.threw, error |-> listed.error,
         underlying |-> listed.underlying]

\* start() without its test of this.isStarted
gatewayStartEntered_noStartedGuard(gw, brokerIsRunning) ==
    IF ~brokerIsRunning
    THEN [threw |-> TRUE,
          error |-> BridgeError("Broker must be started before gateway", "none")]
    ELSE [threw |-> FALSE, error |-> NoFailure]

\* McpGateway.start() before it creates the catalogue: the two guards
gatewayStartEntered(gw, brokerIsRunning) ==
    IF gw.isStarted
    THEN [threw |-> TRUE, error |-> BridgeError("Gateway is already started", "none")]
    ELSE IF ~brokerIsRunning
    THEN [threw |-> TRUE,
          error |-> BridgeError("Broker must be started before gateway", "none")]
    ELSE [threw |-> FALSE, error |-> NoFailure]

\* McpGateway.start() past its guards, as call c: this.serviceCatalogue = new
\* ServiceCatalogue(...), this.setupRoutes(), this.server = this.app.listen(...).
\* routes counts the calls of setupRoutes, server is the call whose
\* app.listen made the server this.server refers to (0 for null)
gatewayStartListen(gw, c) ==
    [gw EXCEPT !.serviceCatalogue = [built |-> TRUE, by |-> c],
               !.routes = @ + 1,
               !.server = c]

\* the callback of app.listen for the server call c made: this.isStarted =
\* true; listening holds the servers that accept connections
gatewayOnListening(gw, c) ==
    [gw EXCEPT !.isStarted = TRUE, !.listening = @ \cup {c}]

\* McpGateway.stop() up to its promise: the early return, then
\* this.server.close(callback). close() stops the server from accepting
\* connections at once; its callback gets an error when the server was not
\* listening
gatewayStopEntered(gw) ==
    IF ~gw.isStarted \/ gw.server = 0
    THEN [stage |-> "resolved", closing |-> 0, wasListening |-> FALSE, gateway |-> gw]
    ELSE [stage |-> "close", closing |-> gw.server,
          wasListening |-> gw.server \in gw.listening,
          gateway |-> [gw EXCEPT !.listening = @ \ {gw.server}]]

\* the callback of server.close(callback) for the server of call c, without
\* an error: this.isStarted = false; this.server = null
gatewayOnClosed(gw, c) ==
    [gw EXCEPT !.isStarted = FALSE, !.server = 0, !.listening = @ \ {c}]

\* the "list-tools" handler before its await: the guard
listToolsEntered(brokerIsRunning) ==
    IF ~brokerIsRunning
    THEN [threw |-> TRUE, error |-> PlainError("Bridge broker is not running")]
    ELSE [threw |-> FALSE, error |-> NoFailure]

\* the entry of the history for what call c has just done; isRunning is the
\* value of broker.isRunning when the step ends
Event(kind, c, running) == [e |-> kind, by |-> c, isRunning |-> running]

\* the entries for the operations of the Moleculer broker call c has made
UnderlyingEvents(underlying, c, running) ==
    [k \in 1..Len(underlying) |-> Event(underlying[k], c, running)]

NextCall == Len(inFlight) + 1

\* broker.start() is called
BrokerStart ==
    /\ Len(inFlight) < MaxCalls
    /\ LET entered == startEntered(isStarted)
       IN  /\ inFlight' = Append(inFlight,
                [method |-> "start", stage |-> entered.stage,
                 error |-> entered.error])
           /\ events' = events
                \o <<Event("start()", NextCall, isStarted)>>
                \o UnderlyingEvents(entered.underlying, NextCall, isStarted)
                \o (IF entered.stage = "rejected"
                    THEN <<Event("start rejected", NextCall, isStarted)>>
                    ELSE <<>>)
    /\ UNCHANGED <<isStarted, gateway>>
    /\ UNCHANGED <<catalogueVars, dispatchVars, nsVars, sfVars, callerVars>>

\* await this.broker.start() resumes: the discovery timer is set
UnderlyingStartResolves(c) ==
    /\ inFlight[c].method = "start"
    /\ inFlight[c].stage = "broker.start"
    /\ inFlight' = [inFlight EXCEPT ![c].stage = "discovery"]
    /\ UNCHANGED <<isStarted, events, gateway>>
    /\ UNCHANGED <<catalogueVars, dispatchVars, nsVars, sfVars, callerVars>>

\* the discovery timer fires
DiscoveryElapsed(c) ==
    /\ inFlight[c].method = "start"
    /\ inFlight[c].stage = "discovery"
    /\ LET resumed == startOnResolve(isStarted)
       IN  /\ isStarted' = resumed.isStarted
           /\ inFlight' = [inFlight EXCEPT ![c].stage = resumed.stage]
           /\ events' = Append(events,
                               Event("start resolved", c, resumed.isStarted))
    /\ UNCHANGED gateway
    /\ UNCHANGED <<catalogueVars, dispatchVars, nsVars, sfVars, callerVars>>

\* await this.broker.start() throws
UnderlyingStartRejects(c) ==
    /\ inFlight[c].method = "start"
    /\ inFlight[c].stage = "broker.start"
    /\ \E err \in MoleculerErrors :
        LET resumed == startOnReject(isStarted, err)
        IN  /\ isStarted' = resumed.isStarted
            /\ inFlight' = [inFlight EXCEPT ![c].stage = resumed.stage,
                                            ![c].error = resumed.error]
            /\ events' = Append(events,
                                Event("start rejected", c, resumed.isStarted))
    /\ UNCHANGED gateway
    /\ UNCHANGED <<catalogueVars, dispatchVars, nsVars, sfVars, callerVars>>

\* broker.stop() is called
BrokerStop ==
    /\ Len(inFlight) < MaxCalls
    /\ LET entered == stopEntered(isStarted)
       IN  /\ inFlight' = Append(inFlight,
                [method |-> "stop", stage |-> entered.stage,
                 error |-> entered.error])
           /\ events' = events
                \o <<Event("stop()", NextCall, isStarted)>>
                \o UnderlyingEvents(entered.underlying, NextCall, isStarted)
                \o (IF entered.stage = "resolved"
                    THEN <<Event("stop resolved", NextCall, isStarted)>>
                    ELSE <<>>)
    /\ UNCHANGED <<isStarted, gateway>>
    /\ UNCHANGED <<catalogueVars, dispatchVars, nsVars, sfVars, callerVars>>

\* await this.broker.stop() resumes
UnderlyingStopResolves(c) ==
    /\ inFlight[c].method = "stop"
    /\ inFlight[c].stage = "broker.stop"
    /\ LET resumed == stopOnResolve(isStarted)
       IN  /\ isStarted' = resumed.isStarted
           /\ inFlight' = [inFlight EXCEPT ![c].stage = resumed.stage]
           /\ events' = Append(events,
                               Event("stop resolved", c, resumed.isStarted))
    /\ UNCHANGED gateway
    /\ UNCHANGED <<catalogueVars, dispatchVars, nsVars, sfVars, callerVars>>

\* await this.broker.stop() throws
UnderlyingStopRejects(c) ==
    /\ inFlight[c].method = "stop"
    /\ inFlight[c].stage = "broker.stop"
    /\ \E err \in MoleculerErrors :
        LET resumed == stopOnReject(isStarted, err)
        IN  /\ isStarted' = resumed.isStarted
            /\ inFlight' = [inFlight EXCEPT ![c].stage = resumed.stage,
                                            ![c].error = resumed.error]
            /\ events' = Append(events,
                                Event("stop rejected", c, resumed.isStarted))
    /\ UNCHANGED gateway
    /\ UNCHANGED <<catalogueVars, dispatchVars, nsVars, sfVars, callerVars>>

\* broker.listActions() is called on its own (BridgeCli.handleListActions)
ListActions ==
    /\ Len(inFlight) < MaxCalls
    /\ LET listed == listActions(isStarted)
       IN  /\ inFlight' = Append(inFlight,
                [method |-> "listActions",
                 stage |-> IF listed.threw THEN "threw" ELSE "returned",
                 error |-> listed.error])
           /\ events' = events
                \o <<Event("listActions()", NextCall, isStarted)>>
                \o UnderlyingEvents(listed.underlying, NextCall, isStarted)
                \o (IF listed.threw
                    THEN <<Event("listActions threw", NextCall, isStarted)>>
                    ELSE <<>>)
    /\ UNCHANGED <<isStarted, gateway>>
    /\ UNCHANGED <<catalogueVars, dispatchVars, nsVars, sfVars, callerVars>>

\* broker.call(actionName, params) is called
BrokerCall ==
    /\ Len(inFlight) < MaxCalls
    /\ \E actionName \in CallNames, params \in CallParams :
        LET entered == callEntered(isStarted, actionName, params)
        IN  /\ inFlight' = Append(inFlight,
                 [method |-> "call", stage |-> entered.stage,
                  error |-> entered.error, actionName |-> actionName,
                  params |-> params, forwarded |-> entered.underlying,
                  result |-> ResultUndefined])
            /\ events' = events
                 \o <<Event("call()", NextCall, isStarted)>>
                 \o [k \in 1..Len(entered.underlying) |->
                        Event("moleculer.call", NextCall, isStarted)]
                 \o (IF entered.stage = "rejected"
                     THEN <<Event("call rejected", NextCall, isStarted)>>
                     ELSE <<>>)
    /\ UNCHANGED <<isStarted, gateway>>
    /\ UNCHANGED <<catalogueVars, dispatchVars, nsVars, sfVars, callerVars>>

\* await this.broker.call(...) resumes with the result of the action
UnderlyingCallResolves(c) ==
    /\ inFlight[c].method = "call"
    /\ inFlight[c].stage = "broker.call"
    /\ \E result \in CallResults :
        LET resumed == callOnResolve(result)
        IN  /\ inFlight' = [inFlight EXCEPT ![c].stage = resumed.stage,
                                            ![c].result = resumed.result]
            /\ events' = Append(events, Event("call resolved", c, isStarted))
    /\ UNCHANGED <<isStarted, gateway>>
    /\ UNCHANGED <<catalogueVars, dispatchVars, nsVars, sfVars, callerVars>>

\* await this.broker.call(...) throws
UnderlyingCallRejects(c) ==
    /\ inFlight[c].method = "call"
    /\ inFlight[c].stage = "broker.call"
    /\ \E err \in MoleculerErrors :
        LET resumed == callOnReject(inFlight[c].actionName, err)
        IN  /\ inFlight' = [inFlight EXCEPT ![c].stage = resumed.stage,
                                            ![c].error = resumed.error]
            /\ events' = Append(events, Event("call rejected", c, isStarted))
    /\ UNCHANGED <<isStarted, gateway>>
    /\ UNCHANGED <<catalogueVars, dispatchVars, nsVars, sfVars, callerVars>>

\* new ServiceCatalogue(broker, options) is called on its own
\* (BridgeCli.handleListActions)
NewServiceCatalogue ==
    /\ Len(inFlight) < MaxCalls
    /\ LET constructed == newServiceCatalogue(isStarted)
       IN  /\ inFlight' = Append(inFlight,
                [method |-> "new ServiceCatalogue",
                 stage |-> IF constructed.threw THEN "threw" ELSE "returned",
                 error |-> constructed.error])
           /\ events' = events
                \o <<Event("new ServiceCatalogue()", NextCall, isStarted)>>
                \o UnderlyingEvents(constructed.underlying, NextCall, isStarted)
                \o <<Event(IF constructed.threw THEN "constructor threw"
                           ELSE "catalogue built", NextCall, isStarted)>>
    /\ UNCHANGED <<isStarted, gateway>>
    /\ UNCHANGED <<catalogueVars, dispatchVars, nsVars, sfVars, callerVars>>

\* gateway.start() is called: the guards, the catalogue, the routes and
\* app.listen(port, callback)
GatewayStart ==
    /\ Len(inFlight) < MaxCalls
    /\ LET entered == gatewayStartEntered(gateway, isStarted)
           constructed == newServiceCatalogue(isStarted)
           threw == entered.threw \/ constructed.threw
           raised == IF entered.threw THEN entered.error ELSE constructed.error
       IN  /\ inFlight' = Append(inFlight,
                [method |-> "gateway.start",
                 stage |-> IF threw THEN "rejected" ELSE "listen",
                 error |-> raised])
           /\ gateway' = IF threw THEN gateway
                         ELSE gatewayStartListen(gateway, NextCall)
           /\ events' = events
                \o <<Event("gateway.start()", NextCall, isStarted)>>
                \o (IF entered.threw THEN <<>>
                    ELSE UnderlyingEvents(constructed.underlying, NextCall,
                                          isStarted))
                \o <<Event(IF threw THEN "gateway.start rejected"
                           ELSE "catalogue built", NextCall, isStarted)>>
    /\ UNCHANGED isStarted
    /\ UNCHANGED <<catalogueVars, dispatchVars, nsVars, sfVars, callerVars>>

\* the callback of app.listen runs: this.isStarted = true; resolve()
GatewayListening(c) ==
    /\ inFlight[c].method = "gateway.start"
    /\ inFlight[c].stage = "listen"
    /\ inFlight' = [inFlight EXCEPT ![c].stage = "resolved"]
    /\ gateway' = gatewayOnListening(gateway, c)
    /\ events' = Append(events, Event("gateway.start resolved", c, isStarted))
    /\ UNCHANGED isStarted
    /\ UNCHANGED <<catalogueVars, dispatchVars, nsVars, sfVars, callerVars>>

\* the server emits "error": reject(new BridgeError(...))
GatewayListenError(c) ==
    /\ inFlight[c].method = "gateway.start"
    /\ inFlight[c].stage = "listen"
    /\ \E err \in MoleculerErrors :
        inFlight' = [inFlight EXCEPT
            ![c].stage = "rejected",
            ![c].error = BridgeError("Failed to start gateway", err.message)]
    /\ events' = Append(events, Event("gateway.start rejected", c, isStarted))
    /\ UNCHANGED <<isStarted, gateway>>
    /\ UNCHANGED <<catalogueVars, dispatchVars, nsVars, sfVars, callerVars>>

\* the "list-tools" action of McpBridgeService is called: the guard, then
\* await import("../catalogue/ServiceCatalogue")
ListTools ==
    /\ Len(inFlight) < MaxCalls
    /\ LET entered == listToolsEntered(isStarted)
       IN  /\ inFlight' = Append(inFlight,
                [method |-> "list-tools",
                 stage |-> IF entered.threw THEN "rejected" ELSE "import",
                 error |-> entered.error])
           /\ events' = events
                \o <<Event("list-tools()", NextCall, isStarted)>>
                \o (IF entered.threw
                    THEN <<Event("list-tools rejected", NextCall, isStarted)>>
                    ELSE <<>>)
    /\ UNCHANGED <<isStarted, gateway>>
    /\ UNCHANGED <<catalogueVars, dispatchVars, nsVars, sfVars, callerVars>>

\* the import resumes: new ServiceCatalogue(this.bridgeBroker, ...), getTools
ListToolsImported(c) ==
    /\ inFlight[c].method = "list-tools"
    /\ inFlight[c].stage = "import"
    /\ LET constructed == newServiceCatalogue(isStarted)
       IN  /\ inFlight' = [inFlight EXCEPT
                ![c].stage = IF constructed.threw THEN "rejected" ELSE "resolved",
                ![c].error = constructed.error]
           /\ events' = events
                \o UnderlyingEvents(constructed.underlying, c, isStarted)
                \o <<Event(IF constructed.threw THEN "list-tools rejected"
                           ELSE "catalogue built", c, isStarted)>>
    /\ UNCHANGED <<isStarted, gateway>>
    /\ UNCHANGED <<catalogueVars, dispatchVars, nsVars, sfVars, callerVars>>

\* A broker and a gateway just constructed; no catalogue is being built by
\* the other parts of the model
InitBroker ==
    /\ ConstructorEntered(BuildInput(<<>>, <<>>, <<>>))
    /\ DispatchIdle
    /\ NsIdle
    /\ SfIdle
    /\ CallerIdle
    /\ BrokerIdle

NextBroker ==
    \/ BrokerStart
    \/ \E c \in 1..Len(inFlight) : UnderlyingStartResolves(c)
    \/ \E c \in 1..Len(inFlight) : DiscoveryElapsed(c)
    \/ \E c \in 1..Len(inFlight) : UnderlyingStartRejects(c)
    \/ BrokerStop
    \/ \E c \in 1..Len(inFlight) : UnderlyingStopResolves(c)
    \/ \E c \in 1..Len(inFlight) : UnderlyingStopRejects(c)
    \/ ListActions
    \/ BrokerCall
    \/ \E c \in 1..Len(inFlight) : UnderlyingCallResolves(c)
    \/ \E c \in 1..Len(inFlight) : UnderlyingCallRejects(c)
    \/ NewServiceCatalogue
    \/ GatewayStart
    \/ \E c \in 1..Len(inFlight) : GatewayListening(c)
    \/ \E c \in 1..Len(inFlight) : GatewayListenError(c)
    \/ ListTools
    \/ \E c \in 1..Len(inFlight) : ListToolsImported(c)

SpecBroker == InitBroker /\ [][NextBroker]_vars

-----------------------------------------------------------------------------
(* The start command: main, its shutdown handler and the exit of the process *)

MaxSignals == 2

\* process.exit has been called: nothing runs after it
Exited ==
    \E i \in 1..Len(events) : events[i].e \in {"process.exit(0)", "process.exit(1)"}

Settled(c) == inFlight[c].stage \in {"resolved", "rejected"}

\* the async function f waits at an await whose promise has settled: its
\* continuation is a microtask, and runs before any timer, I/O callback or
\* signal handler does
Resumable(f) ==
    /\ inFlight[f].method \in {"main", "shutdown"}
    /\ inFlight[f].stage \in {"await broker.start", "await gateway.start",
                              "await gateway.stop", "await broker.stop"}
    /\ Settled(inFlight[f].awaits)

MicrotaskPending == \E f \in 1..Len(inFlight) : Resumable(f)

\* a timer, an I/O callback or a signal handler may run
MacrotaskMayRun == ~Exited /\ ~MicrotaskPending

\* the catch blocks: console.error(...); process.exit(1)
ExitOnError(f) ==
    /\ inFlight' = [inFlight EXCEPT ![f].stage = "exit(1)",
                                    ![f].error = inFlight[inFlight[f].awaits].error]
    /\ events' = Append(events, Event("process.exit(1)", f, isStarted))
    /\ UNCHANGED <<isStarted, gateway>>

\* handleStart / main up to its first await: the options, the broker and the
\* gateway are made, the shutdown handler is registered for SIGINT and
\* SIGTERM, and broker.start() is called
MainRuns ==
    /\ inFlight = <<>>
    /\ LET entered == startEntered(isStarted)
       IN  /\ inFlight' =
                <<[method |-> "main", stage |-> "await broker.start",
                   awaits |-> 2, error |-> NoFailure],
                  [method |-> "start", stage |-> entered.stage,
                   error |-> entered.error]>>
           /\ events' = <<Event("main()", 1, isStarted),
                          Event("start()", 2, isStarted)>>
                \o UnderlyingEvents(entered.underlying, 2, isStarted)
    /\ UNCHANGED <<isStarted, gateway>>
    /\ UNCHANGED <<catalogueVars, dispatchVars, nsVars, sfVars, callerVars>>

\* await broker.start() resumes: gateway.start() is called, or the catch
\* block runs
MainAfterBrokerStart(f) ==
    /\ ~Exited
    /\ inFlight[f].method = "main"
    /\ inFlight[f].stage = "await broker.start"
    /\ Settled(inFlight[f].awaits)
    /\ IF inFlight[inFlight[f].awaits].stage = "rejected"
       THEN ExitOnError(f)
       ELSE LET entered == gatewayStartEntered(gateway, isStarted)
                constructed == newServiceCatalogue(isStarted)
                threw == entered.threw \/ constructed.threw
                raised == IF entered.threw THEN entered.error ELSE constructed.error
            IN  /\ inFlight' = Append(
                        [inFlight EXCEPT ![f].stage = "await gateway.start",
                                         ![f].awaits = NextCall],
                        [method |-> "gateway.start",
                         stage |-> IF threw THEN "rejected" ELSE "listen",
                         error |-> raised])
                /\ gateway' = IF threw THEN gateway
                              ELSE gatewayStartListen(gateway, NextCall)
                /\ events' = events
                     \o <<Event("gateway.start()", NextCall, isStarted)>>
                     \o (IF entered.threw THEN <<>>
                         ELSE UnderlyingEvents(constructed.underlying, NextCall,
                                               isStarted))
                     \o <<Event(IF threw THEN "gateway.start rejected"
                                ELSE "catalogue built", NextCall, isStarted)>>
                /\ UNCHANGED isStarted
    /\ UNCHANGED <<catalogueVars, dispatchVars, nsVars, sfVars, callerVars>>

\* await gateway.start() resumes: "MCP Bridge started successfully", or the
\* catch block runs
MainAfterGatewayStart(f) ==
    /\ ~Exited
    /\ inFlight[f].method = "main"
    /\ inFlight[f].stage = "await gateway.start"
    /\ Settled(inFlight[f].awaits)
    /\ IF inFlight[inFlight[f].awaits].stage = "rejected"
       THEN ExitOnError(f)
       ELSE /\ inFlight' = [inFlight EXCEPT ![f].stage = "started"]
            /\ events' = Append(events, Event("started", f, isStarted))
            /\ UNCHANGED <<isStarted, gateway>>
    /\ UNCHANGED <<catalogueVars, dispatchVars, nsVars, sfVars, callerVars>>

Shutdowns == {c \in 1..Len(inFlight) : inFlight[c].method = "shutdown"}

\* SIGINT or SIGTERM arrives: shutdown(signal) runs up to its first await,
\* gateway.stop()
Signal ==
    /\ MacrotaskMayRun
    /\ inFlight # <<>>
    /\ Cardinality(Shutdowns) < MaxSignals
    /\ LET entered == gatewayStopEntered(gateway)
       IN  /\ inFlight' = inFlight \o
                <<[method |-> "shutdown", stage |-> "await gateway.stop",
                   awaits |-> NextCall + 1, error |-> NoFailure],
                  [method |-> "gateway.stop", stage |-> entered.stage,
                   closing |-> entered.closing,
                   wasListening |-> entered.wasListening, error |-> NoFailure]>>
           /\ gateway' = entered.gateway
           /\ events' = events \o
                <<Event("shutdown()", NextCall, isStarted),
                  Event("gateway.stop()", NextCall + 1, isStarted)>>
                \o (IF entered.stage = "resolved"
                    THEN <<Event("gateway.stop resolved", NextCall + 1, isStarted)>>
                    ELSE <<>>)
    /\ UNCHANGED isStarted
    /\ UNCHANGED <<catalogueVars, dispatchVars, nsVars, sfVars, callerVars>>

\* the callback of server.close runs without an error
GatewayClosed(c) ==
    /\ MacrotaskMayRun
    /\ inFlight[c].method = "gateway.stop"
    /\ inFlight[c].stage = "close"
    /\ inFlight[c].wasListening
    /\ inFlight' = [inFlight EXCEPT ![c].stage = "resolved"]
    /\ gateway' = gatewayOnClosed(gateway, inFlight[c].closing)
    /\ events' = Append(events, Event("gateway.stop resolved", c, isStarted))
    /\ UNCHANGED isStarted
    /\ UNCHANGED <<catalogueVars, dispatchVars, nsVars, sfVars, callerVars>>

\* the callback of server.close runs with an error: the server was not
\* listening
GatewayCloseError(c) ==
    /\ MacrotaskMayRun
    /\ inFlight[c].method = "gateway.stop"
    /\ inFlight[c].stage = "close"
    /\ ~inFlight[c].wasListening
    /\ inFlight' = [inFlight EXCEPT
            ![c].stage = "rejected",
            ![c].error = BridgeError("Failed to stop gateway", "Server is not running.")]
    /\ events' = Append(events, Event("gateway.stop rejected", c, isStarted))
    /\ UNCHANGED <<isStarted, gateway>>
    /\ UNCHANGED <<catalogueVars, dispatchVars, nsVars, sfVars, callerVars>>

\* await gateway.stop() resumes: broker.stop() is called, or the catch block
\* runs
ShutdownAfterGatewayStop(f) ==
    /\ ~Exited
    /\ inFlight[f].method = "shutdown"
    /\ inFlight[f].stage = "await gateway.stop"
    /\ Settled(inFlight[f].awaits)
    /\ IF inFlight[inFlight[f].awaits].stage = "rejected"
       THEN ExitOnError(f)
       ELSE LET entered == stopEntered(isStarted)
            IN  /\ inFlight' = Append(
                        [inFlight EXCEPT ![f].stage = "await broker.stop",
                                         ![f].awaits = NextCall],
                        [method |-> "stop", stage |-> entered.stage,
                         error |-> entered.error])
                /\ events' = events
                     \o <<Event("stop()", NextCall, isStarted)>>
                     \o UnderlyingEvents(entered.underlying, NextCall, isStarted)
                     \o (IF entered.stage = "resolved"
                         THEN <<Event("stop resolved", NextCall, isStarted)>>
                         ELSE <<>>)
                /\ UNCHANGED <<isStarted, gateway>>
    /\ UNCHANGED <<catalogueVars, dispatchVars, nsVars, sfVars, callerVars>>

\* await broker.stop() resumes: "Shutdown complete" and process.exit(0), or
\* the catch block runs
ShutdownAfterBrokerStop(f) ==
    /\ ~Exited
    /\ inFlight[f].method = "shutdown"
    /\ inFlight[f].stage = "await broker.stop"
    /\ Settled(inFlight[f].awaits)
    /\ IF inFlight[inFlight[f].awaits].stage = "rejected"
       THEN ExitOnError(f)
       ELSE /\ inFlight' = [inFlight EXCEPT ![f].stage = "exit(0)"]
            /\ events' = Append(events, Event("process.exit(0)", f, isStarted))
            /\ UNCHANGED <<isStarted, gateway>>
    /\ UNCHANGED <<catalogueVars, dispatchVars, nsVars, sfVars, callerVars>>

\* the process has been started with the start command and nothing has run
InitLifecycle ==
    /\ ConstructorEntered(BuildInput(<<>>, <<>>, <<>>))
    /\ DispatchIdle
    /\ NsIdle
    /\ SfIdle
    /\ CallerIdle
    /\ BrokerIdle

NextLifecycle ==
    \/ MainRuns
    \/ \E f \in 1..Len(inFlight) : MainAfterBrokerStart(f)
    \/ \E f \in 1..Len(inFlight) : MainAfterGatewayStart(f)
    \/ Signal
    \/ \E f \in 1..Len(inFlight) : ShutdownAfterGatewayStop(f)
    \/ \E f \in 1..Len(inFlight) : ShutdownAfterBrokerStop(f)
    \/ \E c \in 1..Len(inFlight) : MacrotaskMayRun /\ UnderlyingStartResolves(c)
    \/ \E c \in 1..Len(inFlight) : MacrotaskMayRun /\ DiscoveryElapsed(c)
    \/ \E c \in 1..Len(inFlight) : MacrotaskMayRun /\ UnderlyingStartRejects(c)
    \/ \E c \in 1..Len(inFlight) : MacrotaskMayRun /\ GatewayListening(c)
    \/ \E c \in 1..Len(inFlight) : MacrotaskMayRun /\ GatewayListenError(c)
    \/ \E c \in 1..Len(inFlight) : GatewayClosed(c)
    \/ \E c \in 1..Len(inFlight) : GatewayCloseError(c)
    \/ \E c \in 1..Len(inFlight) : MacrotaskMayRun /\ UnderlyingStopResolves(c)
    \/ \E c \in 1..Len(inFlight) : MacrotaskMayRun /\ UnderlyingStopRejects(c)

SpecLifecycle == InitLifecycle /\ [][NextLifecycle]_vars

-----------------------------------------------------------------------------
(* Properties *)

\* ^[A-Za-z0-9_]{1,64}$ spelled out
IsProtocolLegal(s) ==
    /\ Len(s) \in 1..64
    /\ \A i \in 1..Len(s) :
          \/ \E k \in 1..26 : s[i] = LowerSeq[k] \/ s[i] = UpperSeq[k]
          \/ \E k \in 1..10 : s[i] = DigitSeq[k]
          \/ s[i] = "_"

CreatedNames == {created[i].name : i \in DOMAIN created}

\* C1: after a build that completes, every tool name of the map getTools
\* returns matches ^[A-Za-z0-9_]{1,64}$, suffixed names included.
C1_ToolNamesLegal ==
    phase = "done" => \A toolName \in DOMAIN getTools : IsProtocolLegal(toolName)

IsNumericSuffixOf(name, baseName) ==
    \E k \in 1..MaxAttempts : name = baseName \o <<"_">> \o Decimal(k)

\* no two createToolConfig calls got the same name, and every entry is still
\* the one its call wrote
NamesCollisionFree ==
    /\ Cardinality(CreatedNames) = Len(created)
    /\ DOMAIN toolConfigs = CreatedNames
    /\ \A i \in DOMAIN created :
          toolConfigs[created[i].name].originalActionName = created[i].action

\* i before j, both auto-generated, both sanitizing to the same name
SameNamePair(i, j) ==
    /\ i < j
    /\ created[i].pass = "remaining"
    /\ created[j].pass = "remaining"
    /\ created[i].base = created[j].base

\* C2 as stated: names are collision-free, and of two allowed actions that
\* sanitize to the same name the earlier keeps the plain name and the later
\* gets the suffixed name.
C2_EarlierKeepsPlainName ==
    /\ NamesCollisionFree
    /\ \A i, j \in DOMAIN created :
          SameNamePair(i, j) =>
              /\ created[i].name = created[i].base
              /\ IsNumericSuffixOf(created[j].name, created[j].base)

\* C2 amended: names are collision-free; of two such actions the later always
\* gets a suffixed name, and the earlier keeps the plain name unless a tool
\* created before it already holds that name.
C2_CollisionFreeNames ==
    /\ NamesCollisionFree
    /\ \A i, j \in DOMAIN created :
          SameNamePair(i, j) =>
              /\ IsNumericSuffixOf(created[j].name, created[j].base)
              /\ (\A h \in 1..(i - 1) : created[h].name # created[i].base)
                    => created[i].name = created[i].base
              /\ (\E h \in 1..(i - 1) : created[h].name = created[i].base)
                    => IsNumericSuffixOf(created[i].name, created[i].base)

\* a.b then a_b have become a_b and a_b_1
C2_Witness ==
    /\ phase = "done"
    /\ \E i, j \in DOMAIN created :
          /\ SameNamePair(i, j)
          /\ created[i].action = NameADotB
          /\ created[i].name = NameAUnderB
          /\ created[j].action = NameAUnderB
          /\ created[j].name = NameAUnderB \o <<"_", "1">>

\* C3: for every input string, stripForbidden returns a string that matches
\* ^[A-Za-z0-9_]{1,64}$.
C3_StripForbiddenLegal ==
    nsOut.fn = "stripForbidden" => IsProtocolLegal(nsOut.value)

\* a long input with forbidden characters has been cut to 64 characters
C3_Witness ==
    /\ nsOut.fn = "stripForbidden"
    /\ Len(nsArgs.input) > 64
    /\ \E i \in 1..Len(nsArgs.input) : nsArgs.input[i] = "."
    /\ Len(nsOut.value) = 64

\* C4: ensureUnique returns the candidate when it is unused, otherwise the
\* candidate with the smallest suffix _k, k >= 1, that is unused; what it
\* returns is not in usedNames, and usedNames is as it was.
C4_EnsureUniqueSmallestFree ==
    nsOut.fn = "ensureUnique" =>
        LET candidate == nsArgs.input
            used      == nsArgs.used
            result    == nsOut.unique.result
            Name(k)   == candidate \o <<"_">> \o Decimal(k)
        IN  /\ nsOut.unique.usedNames = used
            /\ candidate \notin used => result.ok /\ result.name = candidate
            /\ result.ok => result.name \notin used
            /\ (candidate \in used /\ result.ok) =>
                  \E k \in 1..MaxAttempts :
                      /\ result.name = Name(k)
                      /\ \A j \in 1..(k - 1) : Name(j) \in used
            /\ (\E k \in 1..(MaxAttempts - 1) : Name(k) \notin used) => result.ok

\* t, t_1 and t_2 are taken and t_3 has been returned
C4_Witness ==
    /\ nsOut.fn = "ensureUnique"
    /\ nsArgs.input = NameT
    /\ nsOut.unique.result.ok
    /\ nsOut.unique.result.name = <<"t", "_", "3">>

\* C5: the build fails only once the base name and its suffixes _1 .. _999,
\* 1000 names, have each been found in usedNames; the failure ends the
\* constructor, and no tool map of a failed build is handed out.
C5_StormAbortsBuild ==
    /\ phase = "failed" =>
          /\ ~error.ok
          /\ error.base \in usedNames
          /\ \A k \in 1..999 : (error.base \o <<"_">> \o Decimal(k)) \in usedNames
          /\ catalogue = "none"
          /\ ~snapshot.taken
    /\ (catalogue = "ready" \/ snapshot.taken) => (phase = "done" /\ error.ok)
    /\ phase # "failed" => error.ok

\* the 1000th colliding name has made the constructor throw
C5_Witness ==
    /\ phase = "failed"
    /\ error = Thrown(NameT)
    /\ Cardinality(usedNames) = 1000

\* the matching rule as the allow list documents it
PatternMatches(pattern, name) ==
    \/ pattern = <<"*">>
    \/ /\ Len(pattern) >= 1
       /\ pattern[Len(pattern)] = "*"
       /\ Len(name) >= Len(pattern) - 1
       /\ \A i \in 1..(Len(pattern) - 1) : name[i] = pattern[i]
    \/ pattern = name

MatchesSomePattern(name) == \E i \in DOMAIN allow : PatternMatches(allow[i], name)

ListedNames == {actions[i].name : i \in DOMAIN actions}

\* C6: every tool forwards to a listed action whose name matches an allow
\* pattern ("*" all, "prefix*" by prefix, anything else by equality); the
\* filter keeps exactly the matching actions; an empty allow list gives an
\* empty catalogue.
C6_AllowFilter ==
    /\ \A toolName \in DOMAIN toolConfigs :
          /\ toolConfigs[toolName].originalActionName \in ListedNames
          /\ MatchesSomePattern(toolConfigs[toolName].originalActionName)
    /\ \A i \in DOMAIN actions :
          IsAllowedAction(actions[i], allow) <=> MatchesSomePattern(actions[i].name)
    /\ {allowedActions[i].name : i \in DOMAIN allowedActions}
          = {name \in ListedNames : MatchesSomePattern(name)}
    /\ allow = <<>> => DOMAIN toolConfigs = {}

\* under the allow list ["a*", "c"] a build has made tools and left a listed
\* action without one
C6_Witness ==
    /\ phase = "done"
    /\ allow = <<PatternAStar, NameC>>
    /\ DOMAIN toolConfigs # {}
    /\ \E name \in ListedNames :
          /\ ~MatchesSomePattern(name)
          /\ \A toolName \in DOMAIN toolConfigs :
                toolConfigs[toolName].originalActionName # name

TargetedByCustomTool(name) == \E i \in DOMAIN tools : tools[i].action = name

\* C7: the custom tools pass runs before the remaining-actions pass, and an
\* action a configured custom tool targets gets no auto-generated entry: the
\* tools that forward to it are custom ones.
C7_CustomToolPrecedence ==
    /\ phase = "custom" => \A i \in DOMAIN created : created[i].pass = "custom"
    /\ \A i, j \in DOMAIN created :
          (created[i].pass = "remaining" /\ i < j) => created[j].pass = "remaining"
    /\ \A i \in DOMAIN created :
          TargetedByCustomTool(toolConfigs[created[i].name].originalActionName)
              => created[i].pass = "custom"

\* a custom tool has won its allowed action while another action got its
\* auto-generated tool
C7_Witness ==
    /\ phase = "done"
    /\ \E i, j \in DOMAIN created :
          /\ created[i].pass = "custom"
          /\ created[j].pass = "remaining"
    /\ \E i \in DOMAIN allowedActions : TargetedByCustomTool(allowedActions[i].name)

Skipped(customTool) ==
    \A i \in DOMAIN allowedActions : allowedActions[i].name # customTool.action

Without(s, i) == SubSeq(s, 1, i - 1) \o SubSeq(s, i + 1, Len(s))

\* C8: a custom tool whose target is not among the filtered actions gives no
\* entry and reserves no name, and the finished catalogue is the one the build
\* makes from the options without that custom tool.
C8_SkippedCustomTool ==
    phase = "done" =>
        /\ usedNames = DOMAIN toolConfigs
        /\ \A i \in DOMAIN tools :
              Skipped(tools[i]) =>
                  /\ \A toolName \in DOMAIN toolConfigs :
                        toolConfigs[toolName].originalActionName # tools[i].action
                  /\ buildCatalogue(actions, allow, Without(tools, i)) = Current

\* a custom tool was skipped, and the name it asked for went to another tool
C8_Witness ==
    /\ phase = "done"
    /\ \E i \in DOMAIN tools :
          /\ Skipped(tools[i])
          /\ stripForbidden(tools[i].name) \in DOMAIN toolConfigs

CallsOf(i) == {j \in DOMAIN brokerCalls : brokerCalls[j].invocation = i}

\* the overrides configured for the tool of a created entry
OverridesOf(entry) ==
    IF entry.pass = "custom"
    THEN LET t == CHOOSE t \in Range(tools) :
                      t.action = entry.action /\ stripForbidden(t.name) = entry.base
         IN  IF t.hasParams THEN t.params ELSE EmptyObject
    ELSE EmptyObject

EntryNamed(toolName) == created[CHOOSE i \in DOMAIN created : created[i].name = toolName]

C10_OneCallErrorPropagates ==
    \A i \in DOMAIN invocations :
        /\ Cardinality(CallsOf(i)) = 1
        /\ \A j \in CallsOf(i) :
              /\ brokerCalls[j].outcome = "pending" <=> invocations[i].state = "awaiting"
              /\ brokerCalls[j].outcome = "rejected" =>
                    /\ invocations[i].state = "rejected"
                    /\ invocations[i].thrown = brokerCalls[j].error
                    /\ invocations[i].response = NoResponse
              /\ invocations[i].state = "rejected" => brokerCalls[j].outcome = "rejected"

\* two invocations whose calls were rejected with different errors
C10_Witness ==
    \E i, j \in DOMAIN invocations :
        /\ invocations[i].state = "rejected"
        /\ invocations[j].state = "rejected"
        /\ invocations[i].thrown = "Service unavailable"
        /\ invocations[j].thrown = "Request timed out"

CallOf(i) == CHOOSE j \in DOMAIN brokerCalls : brokerCalls[j].invocation = i

\* C11: whatever the broker call resolved to (an object, an array, a
\* primitive, null or undefined), the handler resolves to a response whose
\* content is a list of exactly one item, of type "text", with a text field
\* that is a string: the serialized result.
C11_ResponseIsOneTextItem ==
    \A i \in DOMAIN invocations :
        invocations[i].state = "resolved" =>
            LET content == invocations[i].response.content
            IN  /\ Len(content) = 1
                /\ content[1].type = "text"
                /\ content[1].text.type = "string"
                /\ content[1].text.json = brokerCalls[CallOf(i)].result

\* the action the registry lists under a name
ListedAction(name) == CHOOSE a \in Range(actions) : a.name = name

\* the schema translation gives for the params the registry declares: those
\* under definition when there are any, else those under action, else none
TranslationOf(action) ==
    LET declared ==
            IF action.definition.t = "object" /\ "params" \in DOMAIN action.definition.v
               /\ action.definition.v["params"].t = "object"
            THEN action.definition.v["params"]
            ELSE IF action.action.t = "object" /\ "params" \in DOMAIN action.action.v
                    /\ action.action.v["params"].t = "object"
                 THEN action.action.v["params"]
                 ELSE JsObject(EmptyObject)
    IN  build(declared).shape

\* C13: in the input schema of a tool built with overrides every field the
\* overrides name is optional (the optional form of what translation gave),
\* and every other field is exactly what translation gave; a tool without
\* overrides has the translated schema.
C13_OverriddenFieldsOptional ==
    \A i \in DOMAIN created :
        LET entry       == created[i]
            schema      == toolConfigs[entry.name].schema
            translation == TranslationOf(ListedAction(entry.action))
            overrides   == OverridesOf(entry)
        IN  /\ DOMAIN schema = DOMAIN translation
            /\ \A key \in DOMAIN schema :
                  IF key \in DOMAIN overrides
                  THEN /\ schema[key].z = "optional"
                       /\ schema[key].inner = translation[key]
                  ELSE schema[key] = translation[key]

\* the tool that pins k1 and k2 of a.b: string k1 and the already optional
\* k2 are optional, the array k3 is required as translated
C13_Witness ==
    /\ phase = "done"
    /\ \E i \in DOMAIN created :
          /\ created[i].action = NameADotB
          /\ created[i].pass = "custom"
          /\ toolConfigs[created[i].name].schema =
                [k1 |-> [z |-> "optional", inner |-> [z |-> "string"]],
                 k2 |-> [z |-> "optional",
                         inner |-> [z |-> "optional", inner |-> [z |-> "number"]]],
                 k3 |-> [z |-> "array", element |-> [z |-> "string"]]]

\* the tool map as the build made it
AsBuilt == buildCatalogue(actions, allow, tools).toolConfigs

\* C12: whatever the holder of a getTools() result does to it (add a key,
\* delete a key, replace an entry, change the description or the handler of
\* an entry), a later getTools() call returns the tools exactly as they were
\* built.
C12_SnapshotIsolated ==
    catalogue = "ready" => getTools = AsBuilt

-----------------------------------------------------------------------------
(* Properties of the schema translation *)

IsMapping(node) == node.t = "object"

\* the field mapping a mapping stands for: its props wrapper when it has one
\* that is a mapping, the mapping itself when it has no props key
FieldMapping(node) ==
    IF "props" \in DOMAIN node.v /\ IsMapping(node.v["props"]) THEN node.v["props"].v
    ELSE node.v

FieldKeys(node) == DOMAIN FieldMapping(node) \ {"$$strict", "$$async"}

\* the params build was called with are a mapping whose fields are read from
\* the mapping or from its props wrapper
HasRootFields ==
    /\ sfOut.fn = "build"
    /\ IsMapping(sfArgs)
    /\ "props" \in DOMAIN sfArgs.v => IsMapping(sfArgs.v["props"])

RootNode(key) == FieldMapping(sfArgs)[key]
RootType(key) == sfOut.schema.shape[key]

HasDiscriminator(node) == "type" \in DOMAIN node.v \/ "props" \in DOMAIN node.v

\* a value that is no string, no sequence and no mapping
IsUnrecognizedLeaf(node) == node.t \in {"undefined", "null", "boolean", "number"}

\* a mapping without type or props key all of whose entries are such leaves
IsMappingOfLeaves(node) ==
    /\ IsMapping(node)
    /\ ~HasDiscriminator(node)
    /\ \A key \in DOMAIN node.v : IsUnrecognizedLeaf(node.v[key])

\* C14 as stated: a field whose node is a mapping without type or props key
\* and with unrecognized leaf values for entries ({foo: true}) translates to
\* the unconstrained type.
C14_MappingOfLeavesIsAny ==
    HasRootFields =>
        \A key \in FieldKeys(sfArgs) :
            IsMappingOfLeaves(RootNode(key)) => RootType(key) = ZAny

\* C14 amended: such a field translates, without an error, to an object schema
\* with one unconstrained field per entry other than $$strict and $$async,
\* optional when the mapping carries optional: true, and to the unconstrained
\* type only when the mapping has no such entry; a field whose node is itself
\* an unrecognized leaf translates to the unconstrained type.
C14_MappingOfLeavesIsObjectOfAny ==
    HasRootFields =>
        \A key \in FieldKeys(sfArgs) :
            LET node   == RootNode(key)
                fields == DOMAIN node.v \ {"$$strict", "$$async"}
                object == [z |-> "object", shape |-> [f \in fields |-> [z |-> "any"]]]
            IN  /\ IsUnrecognizedLeaf(node) => RootType(key) = [z |-> "any"]
                /\ IsMappingOfLeaves(node) =>
                      RootType(key) =
                          IF fields = {} THEN [z |-> "any"]
                          ELSE IF "optional" \in fields /\ node.v["optional"] = JsBoolean(TRUE)
                               THEN [z |-> "optional", inner |-> object]
                               ELSE object

\* the field complex: {foo: true} has become an object schema with the
\* unconstrained field foo
C14_Witness ==
    /\ sfOut.fn = "build"
    /\ sfArgs = JsObject([a |-> JsObject([foo |-> JsBoolean(TRUE)])])
    /\ sfOut.schema = [z |-> "object",
                       shape |-> [a |-> [z |-> "object",
                                         shape |-> [foo |-> [z |-> "any"]]]]]

\* a TypeError somewhere in what a call produced: the call threw
RECURSIVE Raised(_)
Raised(zodType) ==
    CASE zodType.z = "TypeError" -> TRUE
      [] zodType.z = "array"     -> Raised(zodType.element)
      [] zodType.z = "optional"  -> Raised(zodType.inner)
      [] zodType.z = "object"    -> \E key \in DOMAIN zodType.shape : Raised(zodType.shape[key])
      [] OTHER                   -> FALSE

\* C15: for every parameter schema (absent, null, a string, a number, a
\* boolean, a sequence, a mapping, nested) build returns an object schema and
\* raises nothing; an absent or null schema, like every value that is not a
\* mapping, gives zero fields; a field whose node is no string, no sequence
\* and no mapping, or an unknown tag, has the unconstrained type.
C15_BuildIsTotal ==
    sfOut.fn = "build" =>
        /\ sfOut.schema.z = "object"
        /\ ~Raised(sfOut.schema)
        /\ ~IsMapping(sfArgs) => DOMAIN sfOut.schema.shape = {}
        /\ HasRootFields =>
              \A key \in FieldKeys(sfArgs) :
                  LET node == RootNode(key)
                  IN  /\ IsUnrecognizedLeaf(node) => RootType(key) = [z |-> "any"]
                      /\ (node.t = "string" /\ node.v \notin PrimitiveTags)
                            => RootType(key) = [z |-> "any"]

\* build(null) has returned the object schema without fields
C15_Witness ==
    /\ sfOut.fn = "build"
    /\ sfArgs = JsNull
    /\ sfOut.schema = [z |-> "object", shape |-> EmptyObject]

\* the atomic type of each primitive tag
AtomicTypeOf(tag) ==
    CASE tag = <<"s","t","r","i","n","g">>     -> [z |-> "string"]
      [] tag = <<"n","u","m","b","e","r">>     -> [z |-> "number"]
      [] tag = <<"b","o","o","l","e","a","n">> -> [z |-> "boolean"]
      [] tag = <<"d","a","t","e">>             -> [z |-> "date"]
      [] tag = <<"e","m","a","i","l">>         -> [z |-> "string", check |-> "email"]
      [] tag = <<"u","r","l">>                 -> [z |-> "string", check |-> "url"]
      [] tag = <<"u","u","i","d">>             -> [z |-> "string", check |-> "uuid"]

HasFlag(node) == "optional" \in DOMAIN node.v /\ node.v["optional"] = JsBoolean(TRUE)

\* type "array", type "object" or a props key
IsComposite(node) ==
    \/ "props" \in DOMAIN node.v
    \/ /\ "type" \in DOMAIN node.v
       /\ node.v["type"] \in {JsString(<<"a","r","r","a","y">>),
                              JsString(<<"o","b","j","e","c","t">>)}

NamesPrimitive(node) ==
    /\ "type" \in DOMAIN node.v
    /\ "props" \notin DOMAIN node.v
    /\ node.v["type"].t = "string"
    /\ node.v["type"].v \in PrimitiveTags

HasFieldMapping(node) == "props" \in DOMAIN node.v => IsMapping(node.v["props"])

IsArrayTyped(node) ==
    "type" \in DOMAIN node.v /\ node.v["type"] = JsString(<<"a","r","r","a","y">>)

\* the mapping is translated as a field mapping: it is no typed array, and it
\* has type "object", a props key, or no type
IsTranslatedAsFields(node) ==
    /\ ~IsArrayTyped(node)
    /\ \/ "props" \in DOMAIN node.v
       \/ "type" \notin DOMAIN node.v
       \/ node.v["type"] = JsString(<<"o","b","j","e","c","t">>)

WithoutOptional(type) == IF type.z = "optional" THEN type.inner ELSE type

\* type, the translation of node, has at every level exactly the fields of
\* the field mapping it was made from
RECURSIVE FieldsExact(_, _)
FieldsExact(node, type) ==
    IF node.t = "array"
    THEN (Len(node.v) > 0 /\ type.z = "array") => FieldsExact(node.v[1], type.element)
    ELSE IF ~IsMapping(node) THEN TRUE
    ELSE IF IsArrayTyped(node)
    THEN ("items" \in DOMAIN node.v /\ type.z = "array")
            => FieldsExact(node.v["items"], type.element)
    ELSE IF IsTranslatedAsFields(node) /\ HasFieldMapping(node)
    THEN IF FieldKeys(node) = {} /\ ~HasDiscriminator(node) THEN type = [z |-> "any"]
         ELSE LET object == WithoutOptional(type)
              IN  /\ object.z = "object"
                  /\ DOMAIN object.shape = FieldKeys(node)
                  /\ \A key \in FieldKeys(node) :
                        FieldsExact(FieldMapping(node)[key], object.shape[key])
    ELSE TRUE

SameTagPairs ==
    {pair \in FieldKeys(sfArgs) \X FieldKeys(sfArgs) :
        /\ RootNode(pair[1]).t = "string"
        /\ RootNode(pair[2]) = JsObject([type |-> RootNode(pair[1])])}

\* C21 as stated: for every string t the field written t and the field
\* written {type: t} translate to the same type: the atomic type of t when t
\* is one of the seven primitive tags, the unconstrained type for every other
\* string.
C21_BareAndTaggedAgree ==
    HasRootFields =>
        \A pair \in SameTagPairs :
            LET tag == RootNode(pair[1]).v
            IN  /\ RootType(pair[1]) = RootType(pair[2])
                /\ RootType(pair[1]) = IF tag \in PrimitiveTags THEN AtomicTypeOf(tag)
                                       ELSE [z |-> "any"]

\* C21 amended: the two forms agree for the seven primitive tags and for
\* every other string except "array" and "object"; the bare strings "array"
\* and "object" translate to the unconstrained type, while {type: "array"}
\* translates to an array of unconstrained elements and {type: "object"} to an
\* object schema whose one field, type, is unconstrained.
C21_BareAndTaggedAgreeOnLeaves ==
    HasRootFields =>
        \A pair \in SameTagPairs :
            LET tag    == RootNode(pair[1]).v
                bare   == RootType(pair[1])
                tagged == RootType(pair[2])
            IN  /\ bare = IF tag \in PrimitiveTags THEN AtomicTypeOf(tag)
                          ELSE [z |-> "any"]
                /\ tagged = CASE tag = <<"a","r","r","a","y">> ->
                                    [z |-> "array", element |-> [z |-> "any"]]
                               [] tag = <<"o","b","j","e","c","t">> ->
                                    [z |-> "object", shape |-> [type |-> [z |-> "any"]]]
                               [] OTHER -> bare

\* {a: "date", b: {type: "date"}} has become two date fields
C21_Witness ==
    /\ sfOut.fn = "build"
    /\ sfArgs = JsObject([a |-> JsString(TagDate),
                          b |-> JsObject([type |-> JsString(TagDate)])])
    /\ sfOut.schema.shape = [a |-> [z |-> "date"], b |-> [z |-> "date"]]

-----------------------------------------------------------------------------
(* Properties of the finished catalogue *)

\* the tools of the map that forward to the action
ToolsFor(actionName) ==
    {toolName \in DOMAIN toolConfigs :
        toolConfigs[toolName].originalActionName = actionName}

AllowedNames == {allowedActions[i].name : i \in DOMAIN allowedActions}

\* C25: when the build completes every allowed action is the target of at
\* least one tool, and an allowed action no custom tool targets of exactly
\* one; without custom tools there are as many tools as allowed actions,
\* also when several actions sanitize to the same name.
C25_BuildComplete ==
    phase = "done" =>
        /\ \A name \in AllowedNames :
              /\ ToolsFor(name) # {}
              /\ (\A i \in DOMAIN tools : tools[i].action # name)
                    => Cardinality(ToolsFor(name)) = 1
        /\ tools = <<>> => Cardinality(DOMAIN toolConfigs) = Len(allowedActions)

\* without custom tools a.b and a_b, which both sanitize to a_b, and c have
\* three tools
C25_Witness ==
    /\ phase = "done"
    /\ tools = <<>>
    /\ AllowedNames = {NameADotB, NameAUnderB, NameC}
    /\ Cardinality(DOMAIN toolConfigs) = 3
    /\ ToolsFor(NameADotB) # ToolsFor(NameAUnderB)

\* the custom tools whose target is an allowed action, in configuration order
Kept == SelectSeq(tools, LAMBDA customTool : ~Skipped(customTool))

SafeName(i) == stripForbidden(Kept[i].name)

\* the entries of the custom tools come first, in configuration order, and
\* are still in the map; a custom tool with another name than the one it
\* asked for has that name with a numeric suffix, because an earlier custom
\* tool holds the name; an auto-generated tool whose name a custom tool holds
\* has the suffix
CustomNamesFirst ==
    /\ Len(created) >= Len(Kept)
    /\ \A i \in 1..Len(Kept) :
          /\ created[i].pass = "custom"
          /\ created[i].action = Kept[i].action
          /\ created[i].name \in DOMAIN toolConfigs
          /\ toolConfigs[created[i].name].originalActionName = Kept[i].action
          /\ created[i].name # SafeName(i) =>
                /\ IsNumericSuffixOf(created[i].name, SafeName(i))
                /\ \E h \in 1..(i - 1) : created[h].name = SafeName(i)
    /\ \A j \in (Len(Kept) + 1)..Len(created) :
          /\ created[j].pass = "remaining"
          /\ (\E i \in 1..Len(Kept) : created[i].name = created[j].base)
                => IsNumericSuffixOf(created[j].name, created[j].base)

\* C28 as stated: custom tools take names before auto-generated tools; the
\* first custom tool, in configuration order, with a given sanitized name
\* gets exactly stripForbidden(its configured name); a custom tool's name is
\* suffixed only when it collides with an earlier custom tool; an
\* auto-generated name that collides with a custom tool's name gets the
\* suffix.
C28_FirstCustomToolGetsItsName ==
    phase = "done" =>
        /\ CustomNamesFirst
        /\ \A i \in 1..Len(Kept) :
              (\A h \in 1..(i - 1) : SafeName(h) # SafeName(i))
                  => created[i].name = SafeName(i)

\* C28 amended: the first custom tool with a given sanitized name gets exactly
\* that name unless an earlier custom tool has received the very name as its
\* suffixed name; the rest as stated.
C28_CustomToolGetsFreeName ==
    phase = "done" =>
        /\ CustomNamesFirst
        /\ \A i \in 1..Len(Kept) :
              (\A h \in 1..(i - 1) : SafeName(h) # SafeName(i))
                  => \/ created[i].name = SafeName(i)
                     \/ \E h \in 1..(i - 1) :
                           /\ created[h].name = SafeName(i)
                           /\ created[h].name # SafeName(h)

\* the custom tools t, "t." and t_1 have become t, t_1 and t_1_1, and the
\* action a.b that custom tool a_b displaced has become a_b_1
C28_Witness ==
    /\ phase = "done"
    /\ tools = <<ToolTOnC, ToolTDot, ToolT1>>
    /\ created[1].name = <<"t">>
    /\ created[2].name = <<"t", "_", "1">>
    /\ created[3].name = <<"t", "_", "1", "_", "1">>
    /\ \E j \in DOMAIN created : created[j].pass = "remaining"

\* the catalogue as the constructor left it
Constructed == buildCatalogue(actions, allow, tools)

\* every invocation has exactly one broker call, which carries that
\* invocation's own arguments merged with the overrides of its tool, and the
\* invocation settles with the outcome of that call; a getTools snapshot
\* shows the tool map
EachInvocationOwnsItsCall ==
    catalogue = "ready" =>
        /\ snapshot.taken => snapshot.tools = toolConfigs
        /\ \A j \in DOMAIN brokerCalls :
              brokerCalls[j].invocation \in DOMAIN invocations
        /\ \A i \in DOMAIN invocations :
              \E j \in DOMAIN brokerCalls :
                  LET config == toolConfigs[invocations[i].tool]
                      args   == invocations[i].args
                      sent   == brokerCalls[j].params
                      mine   == invocations[i]
                  IN  /\ brokerCalls[j].invocation = i
                      /\ \A k \in DOMAIN brokerCalls :
                            brokerCalls[k].invocation = i => k = j
                      /\ brokerCalls[j].actionName = config.originalActionName
                      /\ DOMAIN sent = DOMAIN args \cup DOMAIN config.paramOverrides
                      /\ \A key \in DOMAIN sent :
                            sent[key] = IF key \in DOMAIN config.paramOverrides
                                        THEN config.paramOverrides[key]
                                        ELSE args[key]
                      /\ mine.state = "awaiting" <=> brokerCalls[j].outcome = "pending"
                      /\ mine.state = "resolved" <=> brokerCalls[j].outcome = "resolved"
                      /\ mine.state = "rejected" <=> brokerCalls[j].outcome = "rejected"
                      /\ mine.state = "resolved" =>
                            mine.response.content[1].text
                                = IF brokerCalls[j].result = [type |-> "undefined"]
                                  THEN [type |-> "undefined"]
                                  ELSE [type |-> "string", json |-> brokerCalls[j].result]
                      /\ mine.state = "rejected" => mine.thrown = brokerCalls[j].error

\* C26: once the constructor has returned, no step changes the tool map, the
\* name-to-action mapping or the used-names set, whatever getTools calls and
\* handler invocations happen, several invocations of one tool in flight at
\* once included; every invocation forwards its own arguments merged with
\* the overrides of its tool and settles with the outcome of its own broker
\* call.
C26_ReadOnlyAfterBuild ==
    /\ []EachInvocationOwnsItsCall
    /\ [][catalogue = "ready" =>
              /\ catalogue' = "ready"
              /\ UNCHANGED <<toolConfigs, nameMap, usedNames>>]_vars

\* two invocations of one tool with different arguments were in flight at
\* once; the later one has its own result, a string, while the earlier one
\* still waits, and the catalogue is as built
C26_Witness ==
    /\ catalogue = "ready"
    /\ Len(invocations) = 2
    /\ invocations[1].tool = invocations[2].tool
    /\ invocations[1].args # invocations[2].args
    /\ invocations[1].state = "awaiting"
    /\ invocations[2].state = "resolved"
    /\ invocations[2].response.content[1].text
          = [type |-> "string", json |-> [type |-> "string"]]
    /\ toolConfigs = Constructed.toolConfigs

-----------------------------------------------------------------------------
(* Properties of the sanitizer functions *)

OnlyLegalChars(s) ==
    \A i \in 1..Len(s) :
        s[i] \in {"_"} \cup Lower \cup Upper \cup Digit

\* s with every run of underscores made one underscore, the underscores at
\* its ends removed, "action" if nothing is left, cut to 64 characters
CollapsedAndCut(s) ==
    LET inner == {i \in 1..Len(s) : s[i] # "_"}
        kept  == {i \in 1..Len(s) :
                     /\ \E j \in inner : j <= i
                     /\ \E j \in inner : j >= i
                     /\ s[i] = "_" => s[i - 1] # "_"}
        Nth(k) == CHOOSE i \in kept : Cardinality({j \in kept : j <= i}) = k
        length == IF Cardinality(kept) > 64 THEN 64 ELSE Cardinality(kept)
    IN  IF kept = {} THEN <<"a","c","t","i","o","n">>
        ELSE [k \in 1..length |-> s[Nth(k)]]

EndsWithUnderscore(s) == Len(s) > 0 /\ s[Len(s)] = "_"

HasDoubleUnderscore(s) == \E i \in 1..(Len(s) - 1) : s[i] = "_" /\ s[i + 1] = "_"

\* C24 as stated: for every input, truncated ones included, the result of
\* stripForbidden neither begins nor ends with an underscore and has no two
\* underscores in a row.
C24_NoEdgeUnderscore ==
    nsOut.fn = "stripForbidden" =>
        /\ nsOut.value[1] # "_"
        /\ ~EndsWithUnderscore(nsOut.value)
        /\ ~HasDoubleUnderscore(nsOut.value)

\* C24 amended: the result never begins with an underscore and never has two
\* underscores in a row; it ends with an underscore only when it is the first
\* 64 characters of a longer cleaned form.
C24_NoEdgeUnderscoreUnlessCut ==
    nsOut.fn = "stripForbidden" =>
        /\ nsOut.value[1] # "_"
        /\ ~HasDoubleUnderscore(nsOut.value)
        /\ EndsWithUnderscore(nsOut.value) =>
              /\ Len(nsOut.value) = 64
              /\ Len(nsArgs.input) > 64

\* a 65-character input a.a. ... a has given 64 characters, the last of them
\* the underscore that stands for the 64th
C24_Witness ==
    /\ nsOut.fn = "stripForbidden"
    /\ nsArgs.input = [i \in 1..65 |-> IF i % 2 = 1 THEN "a" ELSE "."]
    /\ Len(nsOut.value) = 64
    /\ nsOut.value[64] = "_"
    /\ nsOut.value[63] = "a"

-----------------------------------------------------------------------------
(* Properties of the broker lifecycle *)

\* broker.isRunning as the i-th entry of the history left it
IsRunningAt(i) == IF i = 0 THEN FALSE ELSE events[i].isRunning

\* the index of the entry that records call c being made
EntryOf(c) ==
    CHOOSE i \in 1..Len(events) :
        /\ events[i].by = c
        /\ \A j \in 1..(i - 1) : events[j].by # c

\* some call other than c settled as kind between the i-th and k-th entries
SettledBetween(kind, c, i, k) ==
    \E j \in (i + 1)..(k - 1) : events[j].e = kind /\ events[j].by # c

\* call c has used the Moleculer broker
UsedUnderlying(c) ==
    \E i \in 1..Len(events) :
        /\ events[i].by = c
        /\ events[i].e \in {"moleculer.start", "moleculer.stop",
                            "moleculer.call", "registry.getActionList"}

\* The lifecycle of the broker as the history shows it. With unlessOverlapped
\* a failed start() or stop() is excused from leaving the broker not running
\* or running when another call of the same method succeeded while it was
\* in flight.
Lifecycle(unlessOverlapped) ==
    /\ isStarted = IsRunningAt(Len(events))
    /\ \A i \in 1..Len(events) :
        LET ev == events[i]
            c == ev.by
            before == IsRunningAt(i - 1)
        IN  /\ ev.isRunning # before =>
                \/ ev.e = "start resolved" /\ ev.isRunning
                \/ ev.e = "stop resolved" /\ ~ev.isRunning
            /\ ev.e = "start resolved" => ev.isRunning
            /\ ev.e = "stop resolved" => ~ev.isRunning
            /\ ev.e = "start()" /\ before =>
                /\ inFlight[c].stage = "rejected"
                /\ inFlight[c].error.name = "BridgeError"
                /\ ~UsedUnderlying(c)
                /\ events[i + 1] = Event("start rejected", c, TRUE)
            /\ ev.e = "start rejected" /\ UsedUnderlying(c) =>
                /\ inFlight[c].error.name = "BridgeError"
                /\ ev.isRunning = before \/ ~unlessOverlapped
                /\ \/ ~ev.isRunning
                   \/ /\ unlessOverlapped
                      /\ SettledBetween("start resolved", c, EntryOf(c), i)
            /\ ev.e = "stop()" /\ ~before =>
                /\ inFlight[c].stage = "resolved"
                /\ ~UsedUnderlying(c)
                /\ events[i + 1] = Event("stop resolved", c, FALSE)
            /\ ev.e = "stop rejected" =>
                /\ inFlight[c].error.name = "BridgeError"
                /\ ev.isRunning = before \/ ~unlessOverlapped
                /\ \/ ev.isRunning
                   \/ /\ unlessOverlapped
                      /\ SettledBetween("stop resolved", c, EntryOf(c), i)

RunningAfter(i) ==
    \E j \in 1..i :
        /\ events[j].e = "start resolved"
        /\ \A k \in (j + 1)..i : events[k].e # "stop resolved"

\* C18: while the broker is not in the started state, listActions() throws a
\* BridgeError and call() rejects with a BridgeError, neither using the
\* Moleculer broker; while it is started, call() hands the action name and the
\* parameters it was given to the Moleculer broker, and rejects with a
\* BridgeError when that call fails
C18_GuardedWhenNotStarted ==
    \A i \in 1..Len(events) :
        LET ev == events[i]
            c == ev.by
        IN  /\ ev.e = "listActions()" /\ ~RunningAfter(i - 1) =>
                /\ inFlight[c].stage = "threw"
                /\ inFlight[c].error.name = "BridgeError"
                /\ ~UsedUnderlying(c)
            /\ ev.e = "call()" /\ ~RunningAfter(i - 1) =>
                /\ inFlight[c].stage = "rejected"
                /\ inFlight[c].error.name = "BridgeError"
                /\ inFlight[c].forwarded = <<>>
                /\ ~UsedUnderlying(c)
            /\ ev.e = "call()" /\ RunningAfter(i - 1) =>
                /\ inFlight[c].forwarded =
                        <<[actionName |-> inFlight[c].actionName,
                           params |-> inFlight[c].params]>>
                /\ events[i + 1].e = "moleculer.call"
                /\ events[i + 1].by = c
            /\ ev.e = "call rejected" /\ UsedUnderlying(c) =>
                /\ inFlight[c].error.name = "BridgeError"
                /\ inFlight[c].error.cause \in Errors

\* a start() has failed; after it a call() was rejected and listActions()
\* threw, and the Moleculer broker was used by neither
C18_Witness ==
    /\ Len(inFlight) = 3
    /\ inFlight[1].method = "start" /\ inFlight[1].stage = "rejected"
    /\ UsedUnderlying(1)
    /\ inFlight[2].method = "call" /\ inFlight[2].stage = "rejected"
    /\ inFlight[3].method = "listActions" /\ inFlight[3].stage = "threw"
    /\ EntryOf(2) > EntryOf(1) + 1
    /\ ~UsedUnderlying(2) /\ ~UsedUnderlying(3)

\* call c has come to hold a catalogue
BuiltBy(c) ==
    \E i \in 1..Len(events) : events[i].e = "catalogue built" /\ events[i].by = c

\* C16: the registry of the Moleculer broker is read, and a catalogue is
\* built, only after a start() has succeeded and before a later stop() has:
\* by gateway.start(), by the listActions() and new ServiceCatalogue() of the
\* CLI and by the list-tools action alike; gateway.start() on a broker that
\* is not running rejects with a BridgeError, reads no registry and builds no
\* catalogue, and the gateway holds no catalogue but one so built
C16_RegistryReadOnlyWhileRunning ==
    /\ \A i \in 1..Len(events) :
        LET ev == events[i]
            c == ev.by
        IN  /\ ev.e \in {"registry.getActionList", "catalogue built"} =>
                RunningAfter(i - 1)
            /\ ev.e \in {"gateway.start()", "new ServiceCatalogue()",
                         "list-tools()"} /\ ~RunningAfter(i - 1) =>
                /\ inFlight[c].stage \in {"rejected", "threw"}
                /\ ~UsedUnderlying(c)
                /\ ~BuiltBy(c)
            /\ ev.e = "gateway.start()" /\ ~RunningAfter(i - 1) =>
                /\ inFlight[c].error.name = "BridgeError"
                /\ events[i + 1] = Event("gateway.start rejected", c, FALSE)
    /\ gateway.serviceCatalogue.built =>
        /\ BuiltBy(gateway.serviceCatalogue.by)
        /\ inFlight[gateway.serviceCatalogue.by].method = "gateway.start"

\* gateway.start() was rejected on the broker not yet started; start() has
\* then succeeded and the next gateway.start() has built its catalogue
C16_Witness ==
    /\ Len(inFlight) = 3
    /\ inFlight[1].method = "gateway.start" /\ inFlight[1].stage = "rejected"
    /\ inFlight[2].method = "start" /\ inFlight[2].stage = "resolved"
    /\ inFlight[3].method = "gateway.start" /\ BuiltBy(3)
    /\ gateway.serviceCatalogue = [built |-> TRUE, by |-> 3]
    /\ \E i \in 1..Len(events) :
        events[i].e = "registry.getActionList" /\ events[i].by = 3

-----------------------------------------------------------------------------
(* Properties of the gateway lifecycle *)

\* this step is a call of gateway.start()
GatewayStartCalled ==
    /\ Len(inFlight') = Len(inFlight) + 1
    /\ inFlight'[Len(inFlight')].method = "gateway.start"

\* C22: gateway.start() on a started gateway rejects with a BridgeError and
\* changes nothing: no catalogue is built, no routes are registered, no
\* listener is opened and isRunning stays true; isRunning is false from
\* construction until a start() has completed.
C22_StartOnStartedGatewayRejected ==
    [][/\ (gateway.isStarted /\ GatewayStartCalled) =>
            /\ gateway' = gateway
            /\ gateway'.isStarted
            /\ inFlight'[Len(inFlight')].stage = "rejected"
            /\ inFlight'[Len(inFlight')].error.name = "BridgeError"
            /\ inFlight'[Len(inFlight')].error.message = "Gateway is already started"
            /\ events' = events \o
                  <<[e |-> "gateway.start()", by |-> Len(inFlight'),
                     isRunning |-> isStarted],
                    [e |-> "gateway.start rejected", by |-> Len(inFlight'),
                     isRunning |-> isStarted]>>
       /\ gateway'.isStarted =>
            \E c \in 1..Len(inFlight') :
                /\ inFlight'[c].method = "gateway.start"
                /\ inFlight'[c].stage = "resolved"]_vars

\* a gateway.start() on the started gateway has been rejected: one catalogue,
\* one registration of the routes, one server
C22_Witness ==
    /\ gateway.isStarted
    /\ gateway.routes = 1
    /\ gateway.listening = {gateway.server}
    /\ gateway.serviceCatalogue.by = gateway.server
    /\ \E c \in 1..Len(inFlight) :
          /\ c > gateway.server
          /\ inFlight[c].method = "gateway.start"
          /\ inFlight[c].stage = "rejected"
          /\ inFlight[c].error.message = "Gateway is already started"

\* call c has settled among the first i entries of the history
SettledBy(c, i) ==
    \E j \in 1..i :
        /\ events[j].by = c
        /\ events[j].e \in {"start resolved", "start rejected",
                            "gateway.start resolved", "gateway.start rejected"}

\* later is a call of the start method earlier is a call of, made while
\* earlier had not settled
StartsOverlap(earlier, later) ==
    /\ earlier < later
    /\ inFlight[earlier].method \in {"start", "gateway.start"}
    /\ inFlight[later].method = inFlight[earlier].method
    /\ ~SettledBy(earlier, EntryOf(later))

\* C30: a start() of the broker, or of the gateway, made while an earlier
\* start() of the same instance has not completed is rejected as already
\* started: it does not start the Moleculer broker, builds no catalogue,
\* registers no routes and opens no listener.
C30_OverlappingStartRejected ==
    /\ \A earlier, later \in 1..Len(inFlight) :
          StartsOverlap(earlier, later) =>
              /\ inFlight[later].stage = "rejected"
              /\ inFlight[later].error.message
                    \in {"Broker is already started", "Gateway is already started"}
              /\ ~UsedUnderlying(later)
              /\ ~BuiltBy(later)
    /\ \A earlier, later \in 1..Len(inFlight) :
          (StartsOverlap(earlier, later) /\ inFlight[later].method = "gateway.start")
              => (gateway.routes <= 1 /\ Cardinality(gateway.listening) <= 1)

\* C29: in the start flow (broker.start, then gateway.start, with a shutdown
\* handler that awaits gateway.stop and then broker.stop and may run at any
\* point) the gateway is never running while the broker is not: the broker
\* has started before the gateway is started, and it is stopped only once
\* the gateway has stopped.
C29_GatewayRunsOnlyWhileBrokerRuns ==
    /\ gateway.isStarted => isStarted
    /\ \A i \in 1..Len(events) :
          /\ events[i].e = "gateway.start()" =>
                \E j \in 1..(i - 1) : events[j].e = "start resolved"
          /\ events[i].e = "gateway.start resolved" => events[i].isRunning


====
